---------------------------- MODULE Spec2Model ----------------------------
(***************************************************************************)
(* A model of tools/config_tempest.py: the TempestConf configuration store *)
(* with its priority (pinned) keys, the parsing of the command-line        *)
(* overrides, and the find-or-create routines the tool runs against the    *)
(* cloud's services.                                                       *)
(*                                                                         *)
(* Conventions.  A configuration key is the pair <<section, key>>.  A      *)
(* value is a string; Absent stands for "the option does not exist".       *)
(* Values range over strings that ConfigParser accepts and returns as they *)
(* are (no '%' interpolation), and sections over names other than DEFAULT. *)
(***************************************************************************)
EXTENDS Integers, Sequences, FiniteSets, TLC

(***************************************************************************)
(* Values and keys.                                                        *)
(***************************************************************************)
Absent == "<absent>"

\* keys and values used by the calls of the store model
ApiKeys == { <<"identity", "uri">>, <<"compute", "flavor_ref">> }
ApiValues == { "a", "b" }

\* services and their codenames (SERVICE_NAMES)
SERVICE_NAMES ==
    [s \in { "baremetal", "compute", "database", "data_processing", "image",
             "network", "object-store", "orchestration", "telemetry", "volume",
             "queuing" } |->
        CASE s = "baremetal"       -> "ironic"
          [] s = "compute"         -> "nova"
          [] s = "database"        -> "trove"
          [] s = "data_processing" -> "sahara"
          [] s = "image"           -> "glance"
          [] s = "network"         -> "neutron"
          [] s = "object-store"    -> "swift"
          [] s = "orchestration"   -> "heat"
          [] s = "telemetry"       -> "ceilometer"
          [] s = "volume"          -> "cinder"
          [] s = "queuing"         -> "marconi"]

\* the API versions that are configurable, per service (SERVICE_VERSIONS)
SERVICE_VERSIONS ==
    [s \in { "image", "identity", "volume", "compute" } |->
        CASE s = "image"    -> { "v1", "v2" }
          [] s = "identity" -> { "v2", "v3" }
          [] s = "volume"   -> { "v1", "v2" }
          [] s = "compute"  -> { "v3" }]

\* the option that holds the extensions, per service (SERVICE_EXTENSION_KEY)
SERVICE_EXTENSION_KEY ==
    [s \in { "compute", "object-storage", "network", "volume" } |->
        IF s \in { "compute", "object-storage" } THEN "discoverable_apis"
        ELSE "api_extensions"]

\* service + '-feature-enabled'
FeatureSection(s) ==
    CASE s = "compute"        -> "compute-feature-enabled"
      [] s = "object-storage" -> "object-storage-feature-enabled"
      [] s = "network"        -> "network-feature-enabled"
      [] s = "volume"         -> "volume-feature-enabled"
      [] s = "image"          -> "image-feature-enabled"
      [] s = "identity"       -> "identity-feature-enabled"

\* 'api_' + version
ApiOption(v) ==
    CASE v = "v1" -> "api_v1"
      [] v = "v2" -> "api_v2"
      [] v = "v3" -> "api_v3"

\* every option the tool reads or writes
ConfKeys ==
    ( {"identity"} \X { "uri", "uri_v3", "admin_username", "admin_tenant_name",
                        "admin_password", "username", "password", "tenant_name",
                        "alt_username", "alt_password", "alt_tenant_name",
                        "disable_ssl_certificate_validation" } )
    \cup ( {"compute"} \X { "allow_tenant_isolation", "flavor_ref", "flavor_ref_alt",
                            "image_ref", "image_ref_alt", "fixed_network_name" } )
    \cup ( {"scenario"} \X { "img_dir", "qcow2_img_file" } )
    \cup { <<"network", "public_network_id">> }
    \cup ( {"service_available"} \X
              ( { SERVICE_NAMES[s] : s \in DOMAIN SERVICE_NAMES } \cup {"horizon"} ) )
    \cup { << FeatureSection(s), SERVICE_EXTENSION_KEY[s] >> :
              s \in DOMAIN SERVICE_EXTENSION_KEY }
    \cup UNION { { << FeatureSection(s), ApiOption(v) >> : v \in SERVICE_VERSIONS[s] } :
                  s \in DOMAIN SERVICE_VERSIONS }
    \cup ( {"boto"} \X { "ec2_url", "s3_url" } )
    \cup ( {"cli"} \X { "enabled", "cli_dir", "has_manage" } )
    \cup ( {"dashboard"} \X { "dashboard_url", "login_url" } )

Sections == { kk[1] : kk \in ConfKeys }

\* the content of a configuration file: the value it gives to each key, Absent
\* for a key it does not mention
ApiSources == [ApiKeys -> ApiValues \cup {Absent}]

SourceKeys(source) == { kk \in DOMAIN source : source[kk] # Absent }

VARIABLES
    conf,                   \* a TempestConf instance: its values and sections
    priority_sectionkeys,   \* TempestConf.priority_sectionkeys, a class attribute
    prio_written,           \* history: the keys set with priority on conf
    last,                   \* history: the last call made on conf and its outcome
    overrides,              \* the positional command-line arguments, as given
    parsed,                 \* what parse_overrides made of them
    pc,                     \* the statement of main() that runs next
    run,                    \* 1 for the first invocation of the tool, 2 for the next
    args,                   \* the other command-line arguments
    defaults_file,          \* etc/default-overrides.conf
    deployer_input,         \* the file named by --deployer-input
    error,                  \* the exception that ended the run
    clients,                \* ClientManager: the cached connections
    services,               \* what api_discovery.discover returned
    cloud,                  \* the state of the cloud's services
    calls,                  \* history: the remote calls of this run, in order
    local,                  \* local variables of the routine that runs
    resolved,               \* history: what the find-or-create routines returned
    outfile,                \* the file named by --out
    first                   \* history: the first invocation, once a second one started

store == << conf, priority_sectionkeys >>
hist == << prio_written, last >>
cmdline == << overrides, args, defaults_file, deployer_input >>
fixed == << hist, cmdline, run, first >>
runvars == << pc, run, error, clients, services, cloud, calls, local, resolved,
              outfile, first >>

vars == << conf, priority_sectionkeys, prio_written, last, overrides, parsed,
           pc, run, args, defaults_file, deployer_input, error, clients, services,
           cloud, calls, local, resolved, outfile, first >>

(***************************************************************************)
(* TempestConf.  An instance is the record [values, sections]; the set of  *)
(* pinned keys is the class attribute priority_sectionkeys, one set for    *)
(* all the instances of the process.  The operators below work on the      *)
(* record c = [values, sections, pins, ret]: an instance together with the *)
(* class attribute and the outcome of the last call ("True", "False", or   *)
(* the name of the exception raised).  The model follows one instance,     *)
(* conf; the other instances of the process act on it only through the     *)
(* class attribute (OtherInstanceSet).                                     *)
(***************************************************************************)
EmptyValues == [kk \in ConfKeys |-> Absent]

NewConf == [values |-> EmptyValues, sections |-> {}]

Obj == [values   |-> conf.values,
        sections |-> conf.sections,
        pins     |-> priority_sectionkeys,
        ret      |-> "None"]

has_section(c, section) == section \in c.sections

add_section(c, section) == [c EXCEPT !.sections = @ \cup {section}]

has_option(c, section, key) ==
    /\ has_section(c, section)
    /\ c.values[<<section, key>>] # Absent

\* SafeConfigParser.get as the tool uses it: the value, or the exception
get(c, section, key) ==
    IF ~has_section(c, section) THEN "NoSectionError"
    ELSE IF c.values[<<section, key>>] = Absent THEN "NoOptionError"
    ELSE c.values[<<section, key>>]

IsError(v) == v \in {"NoSectionError", "NoOptionError"}

\* a plausible slip: the pinned-key test is dropped
TempestConf_set_nocheck(c, section, key, value, priority) ==
    LET c1 == IF has_section(c, section) THEN c ELSE add_section(c, section)
    IN  [c1 EXCEPT !.pins = IF priority THEN @ \cup {<<section, key>>} ELSE @,
                   !.values[<<section, key>>] = value,
                   !.ret = "True"]

\* a plausible slip: a priority write is refused on a pinned key as well
TempestConf_set_sticky(c, section, key, value, priority) ==
    LET c1 == IF has_section(c, section) THEN c ELSE add_section(c, section)
    IN  IF <<section, key>> \in c1.pins
        THEN [c1 EXCEPT !.ret = "False"]
        ELSE [c1 EXCEPT !.pins = IF priority THEN @ \cup {<<section, key>>} ELSE @,
                        !.values[<<section, key>>] = value,
                        !.ret = "True"]

\* a plausible slip: a non-priority write keeps a value that exists already
TempestConf_set_keep_existing(c, section, key, value, priority) ==
    LET c1 == IF has_section(c, section) THEN c ELSE add_section(c, section)
    IN  IF ~priority /\ c1.values[<<section, key>>] # Absent
        THEN [c1 EXCEPT !.ret = "False"]
        ELSE [c1 EXCEPT !.pins = IF priority THEN @ \cup {<<section, key>>} ELSE @,
                        !.values[<<section, key>>] = value,
                        !.ret = "True"]

\* TempestConf.set
TempestConf_set(c, section, key, value, priority) ==
    LET c1 == IF has_section(c, section) THEN c ELSE add_section(c, section)
    IN  IF ~priority /\ <<section, key>> \in c1.pins
        THEN \* the arguments of LOG.debug are evaluated: self.get(section, key)
             IF IsError(get(c1, section, key))
             THEN [c1 EXCEPT !.ret = get(c1, section, key)]
             ELSE [c1 EXCEPT !.ret = "False"]
        ELSE [c1 EXCEPT !.pins = IF priority THEN @ \cup {<<section, key>>} ELSE @,
                        !.values[<<section, key>>] = value,
                        !.ret = "True"]

\* a plausible slip: read goes through set(), as a non-priority write
TempestConf_read_via_set(c, source) ==
    [c EXCEPT !.values = [kk \in DOMAIN c.values |->
                            IF kk \in SourceKeys(source) /\ kk \notin c.pins
                            THEN source[kk] ELSE @[kk]],
              !.sections = @ \cup { kk[1] : kk \in SourceKeys(source) },
              !.ret = "None"]

\* a plausible slip: read marks what it imports as user-defined
TempestConf_read_pinning(c, source) ==
    [c EXCEPT !.values = [kk \in DOMAIN c.values |->
                            IF kk \in SourceKeys(source) THEN source[kk] ELSE @[kk]],
              !.sections = @ \cup { kk[1] : kk \in SourceKeys(source) },
              !.pins = @ \cup SourceKeys(source),
              !.ret = "None"]

\* TempestConf.read: inherited from SafeConfigParser, which stores every option
\* of the file in its sections directly, without calling set()
TempestConf_read(c, source) ==
    [c EXCEPT !.values = [kk \in DOMAIN c.values |->
                            IF kk \in SourceKeys(source) THEN source[kk] ELSE @[kk]],
              !.sections = @ \cup { kk[1] : kk \in SourceKeys(source) },
              !.ret = "None"]

(***************************************************************************)
(* parse_overrides.  A command-line argument is a string, written here as  *)
(* the sequence of its pieces: "." for a dot, and a non-empty dot-free     *)
(* string for what stands between two dots ("identity.uri" is              *)
(* <<"identity", ".", "uri">>, "" is << >>).  No two dot-free pieces are   *)
(* adjacent, so a string has one such writing.                             *)
(***************************************************************************)
\* bound: the longest list of positional arguments
MaxOverrides == 4

Dot == "."

Words == { << >>,
           <<"a">>,
           <<Dot>>,
           <<"identity", Dot, "uri">>,
           <<"compute", Dot, "flavor_ref">>,
           <<"identity", Dot>>,
           <<Dot, "uri">>,
           <<"a", Dot, "b", Dot, "c">>,
           <<Dot, Dot>> }

\* a dot-free string from its writing: "" or the one piece
Str(w) == IF w = << >> THEN "" ELSE w[1]

RECURSIVE split(_, _)
\* str.split('.'): the pieces between the dots, cur being the piece in progress
split(w, cur) ==
    IF w = << >> THEN << cur >>
    ELSE IF Head(w) = Dot THEN << cur >> \o split(Tail(w), << >>)
    ELSE split(Tail(w), cur \o << Head(w) >>)

Unparsed == [status |-> "unparsed", triples |-> << >>]

RECURSIVE parse_loop_lenient(_, _, _)
\* a plausible slip: the test is len(section_key) < 2, and the first two pieces
\* are taken
parse_loop_lenient(ov, i, new_overrides) ==
    IF ~(i < Len(ov)) THEN [status |-> "ok", triples |-> new_overrides]
    ELSE LET section_key == split(ov[i + 1], << >>)
             value == ov[i + 2]
         IN  IF Len(section_key) < 2
             THEN [status |-> "missing_dot", triples |-> << >>]
             ELSE parse_loop_lenient(ov, i + 2,
                     Append(new_overrides,
                            << Str(section_key[1]), Str(section_key[2]), value >>))

RECURSIVE parse_loop(_, _, _)
\* the while loop of parse_overrides (i counts from 0, as in the code)
parse_loop(ov, i, new_overrides) ==
    IF ~(i < Len(ov)) THEN [status |-> "ok", triples |-> new_overrides]
    ELSE LET section_key == split(ov[i + 1], << >>)
             value == ov[i + 2]
         IN  IF Len(section_key) # 2
             THEN [status |-> "missing_dot", triples |-> << >>]
             ELSE parse_loop(ov, i + 2,
                     Append(new_overrides,
                            << Str(section_key[1]), Str(section_key[2]), value >>))

\* parse_overrides: the triples, or the exception raised
parse_overrides(ov) ==
    IF Len(ov) % 2 # 0
    THEN [status |-> "odd", triples |-> << >>]
    ELSE parse_loop(ov, 0, << >>)

(***************************************************************************)
(* The values the variables of a run of main() hold where no run is        *)
(* modelled (the store model and the parsing model).                       *)
(***************************************************************************)
NoFile == [exists |-> FALSE, content |-> << >>]

NoArgs == [create |-> FALSE, non_admin |-> FALSE, network_id |-> "",
           subnet_cidr |-> ""]

NoClients == [identity |-> FALSE, compute |-> FALSE, image |-> FALSE,
              network |-> FALSE, insecure |-> "", auth_url |-> "",
              username |-> "", password |-> "", tenant_name |-> ""]

NoRun ==
    /\ pc = "idle"
    /\ run = 0
    /\ args = NoArgs
    /\ defaults_file = NoFile
    /\ deployer_input = NoFile
    /\ error = ""
    /\ clients = NoClients
    /\ services = {}
    /\ cloud = << >>
    /\ calls = << >>
    /\ local = << >>
    /\ resolved = << >>
    /\ outfile = NoFile
    /\ first = << >>

(***************************************************************************)
(* The store model: calls of set and read on an instance, in any order,    *)
(* and priority writes made on other instances of the same process.        *)
(***************************************************************************)

\* The history of a call: what was called and what held before it.  old: the
\* key's value before the call; was_pinned: the key was in
\* priority_sectionkeys; was_prio: the key had been set with priority on this
\* instance; after_read: the call before was a read on this instance, and
\* fresh: that read's source did not mention the key.
NoCall == [op |-> "none", key |-> <<"", "">>, value |-> Absent,
           priority |-> FALSE, ret |-> "None", old |-> Absent,
           was_pinned |-> FALSE, was_prio |-> FALSE,
           after_read |-> FALSE, fresh |-> FALSE, keys |-> {}]

StoreInit ==
    /\ conf = NewConf
    /\ priority_sectionkeys = {}
    /\ prio_written = {}
    /\ last = NoCall
    /\ overrides = << >>
    /\ parsed = Unparsed
    /\ NoRun

\* conf.set(section, key, value, priority)
StoreSet(kk, value, priority) ==
    LET c == TempestConf_set(Obj, kk[1], kk[2], value, priority)
    IN  /\ conf' = [values |-> c.values, sections |-> c.sections]
        /\ priority_sectionkeys' = c.pins
        /\ prio_written' = IF priority /\ c.ret = "True"
                           THEN prio_written \cup {kk} ELSE prio_written
        /\ UNCHANGED << overrides, parsed, args, defaults_file, deployer_input, runvars >>
        /\ last' = [NoCall EXCEPT !.op = "set", !.key = kk,
                                  !.value = value, !.priority = priority,
                                  !.ret = c.ret,
                                  !.old = conf.values[kk],
                                  !.was_pinned = (kk \in priority_sectionkeys),
                                  !.was_prio = (kk \in prio_written),
                                  !.after_read = (last.op = "read"),
                                  !.fresh = (last.op = "read" /\ kk \notin last.keys),
                                  !.keys = IF last.op = "read" THEN last.keys ELSE {}]

\* conf.read(source)
StoreRead(source) ==
    LET c == TempestConf_read(Obj, source)
    IN  /\ conf' = [values |-> c.values, sections |-> c.sections]
        /\ priority_sectionkeys' = c.pins
        /\ UNCHANGED << prio_written, overrides, parsed, args, defaults_file,
                        deployer_input, runvars >>
        /\ last' = [NoCall EXCEPT !.op = "read", !.keys = SourceKeys(source)]

\* other.set(section, key, value, priority=True) on another TempestConf
\* instance of the process: the key joins the class attribute
OtherInstanceSet(kk) ==
    /\ priority_sectionkeys' = priority_sectionkeys \cup {kk}
    /\ last' = [NoCall EXCEPT !.op = "other", !.key = kk]
    /\ UNCHANGED << conf, prio_written, overrides, parsed, args, defaults_file,
                    deployer_input, runvars >>

SetCall == \E kk \in ApiKeys, value \in ApiValues, priority \in BOOLEAN :
              StoreSet(kk, value, priority)

ReadCall == \E source \in ApiSources : StoreRead(source)

OtherCall == \E kk \in ApiKeys : OtherInstanceSet(kk)

StoreNext == SetCall \/ ReadCall \/ OtherCall

SpecStore == StoreInit /\ [][StoreNext]_vars

(***************************************************************************)
(* A run of main().  Inputs: the command line, the two configuration files *)
(* and the state of the cloud.                                             *)
(***************************************************************************)

\* bound: the most flavors, images or networks the cloud holds at the start
MaxResources == 2

\* identifiers the services give to their resources, in the order of creation
FlavorIds == << "f1", "f2", "f3", "f4", "f5", "f6", "f7", "f8" >>
ImageIds == << "i1", "i2", "i3", "i4", "i5", "i6", "i7", "i8" >>
NetworkIds == << "n1", "n2", "n3", "n4", "n5", "n6", "n7", "n8" >>

\* an identifier no resource has
NoSuchId == "x0"

IdentityUri == "http://keystone:5000/v2.0"

\* uri.replace("v2.0", "v3")
replace_v2_v3(uri) ==
    CASE uri = "http://keystone:5000/v2.0" -> "http://keystone:5000/v3"
      [] OTHER -> uri

\* uri.rsplit(':', 1)[0] + '/dashboard'
dashboard_base(uri) ==
    CASE uri = "http://keystone:5000/v2.0" -> "http://keystone/dashboard"
      [] uri = "http://keystone:5000/v3"   -> "http://keystone/dashboard"
      [] OTHER -> "/dashboard"

\* base + '/' and base + '/auth/login/'
dashboard_url(base) ==
    CASE base = "http://keystone/dashboard" -> "http://keystone/dashboard/"
      [] OTHER -> "/dashboard/"

login_url(base) ==
    CASE base = "http://keystone/dashboard" -> "http://keystone/dashboard/auth/login/"
      [] OTHER -> "/dashboard/auth/login/"

\* --image, and the names create_tempest_images derives from it
DEFAULT_IMAGE == "http://download.cirros-cloud.net/0.3.1/cirros-0.3.1-x86_64-disk.img"
ImageName == "cirros-0.3.1-x86_64-disk.img"
AltImageName == "cirros-0.3.1-x86_64-disk.img_alt"

\* the options a distributor's defaults file gives
DefaultsBase ==
    [kk \in ( {"identity"} \X { "uri", "admin_username", "admin_tenant_name",
                               "admin_password", "username", "password",
                               "tenant_name", "alt_username", "alt_password",
                               "alt_tenant_name",
                               "disable_ssl_certificate_validation" } )
            \cup ( {"scenario"} \X { "img_dir", "qcow2_img_file" } ) |->
        CASE kk = <<"identity", "uri">>               -> IdentityUri
          [] kk = <<"identity", "admin_username">>    -> "admin"
          [] kk = <<"identity", "admin_tenant_name">> -> "admin"
          [] kk = <<"identity", "admin_password">>    -> "adminpw"
          [] kk = <<"identity", "username">>          -> "demo"
          [] kk = <<"identity", "password">>          -> "secret"
          [] kk = <<"identity", "tenant_name">>       -> "demo"
          [] kk = <<"identity", "alt_username">>      -> "alt_demo"
          [] kk = <<"identity", "alt_password">>      -> "secret"
          [] kk = <<"identity", "alt_tenant_name">>   -> "alt_demo"
          [] kk = <<"identity", "disable_ssl_certificate_validation">> -> "false"
          [] kk = <<"scenario", "img_dir">>           -> "etc"
          [] kk = <<"scenario", "qcow2_img_file">>    -> "cirros.img"]

\* options that a later phase of the run writes, one or more per phase
UserKeys == { <<"identity", "uri_v3">>,
              <<"compute", "allow_tenant_isolation">>,
              <<"compute", "flavor_ref">>,
              <<"compute", "image_ref_alt">>,
              <<"network", "public_network_id">>,
              <<"compute", "fixed_network_name">>,
              <<"service_available", "glance">>,
              <<"boto", "ec2_url">>,
              <<"cli", "enabled">>,
              <<"dashboard", "login_url">> }

File(content) == [exists |-> TRUE, content |-> content]

\* "section.key" as a command-line argument
KeyWord(kk) == << kk[1], Dot, kk[2] >>

(***************************************************************************)
(* The cloud: keystone's tenants, users, roles and grants, nova's flavors  *)
(* and networks, glance's images, neutron's networks and subnets, the      *)
(* service catalog, and what the host of the tool offers.                  *)
(***************************************************************************)
SubnetIds == << "s1", "s2", "s3", "s4", "s5", "s6", "s7", "s8" >>

UserNames == { "admin", "demo", "alt_demo" }
RoleNames == { "admin", "heat_stack_owner" }

\* --network-name
DEFAULT_NETWORK_NAME == "public"

BaseCatalog == { "identity", "compute", "image", "volume" }

Keystone(tenants, users, roles, grants) ==
    [tenants |-> tenants, users |-> users, roles |-> roles, grants |-> grants]

\* keystone as installed: the admin, and no user of the tests
KeystoneNew ==
    Keystone({"admin"},
             [u \in UserNames |-> IF u = "admin" THEN "adminpw" ELSE Absent],
             {"admin"}, { <<"admin", "admin", "admin">> })

\* keystone with the users of the tests
KeystoneReady ==
    Keystone(UserNames,
             [u \in UserNames |-> IF u = "admin" THEN "adminpw" ELSE "secret"],
             RoleNames,
             { <<"admin", "admin", "admin">>, <<"admin", "demo", "admin">>,
               <<"demo", "demo", "heat_stack_owner">> })

Resource(id, name) == [id |-> id, name |-> name]

Network(id, name, external) == [id |-> id, name |-> name, external |-> external]

Subnet(id, network_id) == [id |-> id, network_id |-> network_id]

\* lists of at most MaxResources resources with names of a set, the n-th of a
\* list having the n-th identifier
ResourceLists(ids, names) ==
    UNION { { [n \in 1..len |-> Resource(ids[n], f[n])] : f \in [1..len -> names] } :
            len \in 0..MaxResources }

NetworkNames == << "net1", "net2", "net3", "net4", "net5", "net6", "net7", "net8" >>

\* lists of at most MaxResources networks, each external or not, named or not
NetworkLists ==
    UNION { { [n \in 1..len |->
                Network(NetworkIds[n], IF f[n][2] THEN NetworkNames[n] ELSE "", f[n][1])] :
                f \in [1..len -> BOOLEAN \X BOOLEAN] } : len \in 0..MaxResources }

RECURSIVE subnets_of(_, _, _)
\* one subnet for each of the networks that has[n] says has one, from the n-th on
subnets_of(networks, has, n) ==
    IF n > Len(networks) THEN << >>
    ELSE (IF has[n] THEN << Subnet(SubnetIds[n], networks[n].id) >> ELSE << >>)
         \o subnets_of(networks, has, n + 1)

\* at most one subnet for each of the networks
SubnetLists(networks) ==
    { subnets_of(networks, has, 1) : has \in [1..Len(networks) -> BOOLEAN] }

\* the identifier a service gives to the resource it creates: the first one
\* that no resource has
NewId(ids, used) ==
    ids[CHOOSE n \in 1..Len(ids) :
            /\ ids[n] \notin used
            /\ \A m \in 1..(n - 1) : ids[m] \in used]

IdsOf(resources) == { resources[n].id : n \in 1..Len(resources) }

Cloud(catalog, keystone, flavors, images, networks, subnets, nova_networks) ==
    [catalog |-> catalog, keystone |-> keystone, flavors |-> flavors,
     images |-> images, networks |-> networks, subnets |-> subnets,
     nova_networks |-> nova_networks,
     nova_dir |-> "/usr/bin", nova_manage |-> FALSE, horizon |-> TRUE,
     reliable |-> TRUE, shared |-> FALSE]

\* a cloud as installed: nothing the tests need is there
CloudNew ==
    Cloud(BaseCatalog \cup {"network"}, KeystoneNew, << >>, << >>, << >>, << >>,
          << "private" >>)

\* a cloud where everything the tests need is there
CloudReady ==
    Cloud(BaseCatalog \cup {"network"}, KeystoneReady,
          << Resource("f1", "m1.nano"), Resource("f2", "m1.micro") >>,
          << Resource("i1", ImageName), Resource("i2", AltImageName) >>,
          << Network("n1", "net1", TRUE) >>, << Subnet("s1", "n1") >>,
          << "private" >>)

(***************************************************************************)
(* Helpers of the run.                                                     *)
(***************************************************************************)
StoreConf(c) ==
    /\ conf' = [values |-> c.values, sections |-> c.sections]
    /\ priority_sectionkeys' = c.pins

\* a plausible slip: the exception is caught and logged, and the result written
Fail_logged(exception) ==
    /\ pc' = "write"
    /\ error' = exception

\* an exception that nothing catches ends the run
Fail(exception) ==
    /\ pc' = "failed"
    /\ error' = exception

Goto(label) ==
    /\ pc' = label
    /\ UNCHANGED error

RECURSIVE set_all(_, _)
\* conf.set(...) for each <<section, key, value, priority>> of a list, in order,
\* up to the first call that raises
set_all(c, sets) ==
    IF sets = << >> \/ IsError(c.ret) THEN c
    ELSE set_all(TempestConf_set(c, sets[1][1], sets[1][2], sets[1][3], sets[1][4]),
                 Tail(sets))

RECURSIVE items(_)
\* the options of a file, one after the other
items(content) ==
    IF DOMAIN content = {} THEN << >>
    ELSE LET kk == CHOOSE k \in DOMAIN content : TRUE
         IN  << << kk[1], kk[2], content[kk], TRUE >> >>
             \o items([k \in DOMAIN content \ {kk} |-> content[k]])

\* a plausible slip: the overrides are set without priority
override_sets_plain(triples) ==
    [n \in 1..Len(triples) |->
        << triples[n][1], triples[n][2], Str(triples[n][3]), FALSE >>]

\* the parsed overrides as calls of set with priority
override_sets(triples) ==
    [n \in 1..Len(triples) |->
        << triples[n][1], triples[n][2], Str(triples[n][3]), TRUE >>]

(***************************************************************************)
(* main(), from the command line to the ClientManager.                     *)
(***************************************************************************)

\* args = parse_arguments()
ParseArguments ==
    /\ pc = "parse_arguments"
    /\ IF args.create /\ args.non_admin
       THEN /\ Fail("create with non-admin")
            /\ UNCHANGED parsed
       ELSE /\ parsed' = parse_overrides(overrides)
            /\ IF parsed'.status = "ok"
               THEN Goto("read_defaults")
               ELSE Fail(parsed'.status)
    /\ UNCHANGED << store, hist, cmdline, run, clients, services, cloud, calls,
                    local, resolved, outfile, first >>

\* conf = TempestConf(); conf.read(DEFAULTS_FILE) if the file is there
ReadDefaults ==
    /\ pc = "read_defaults"
    /\ StoreConf(IF defaults_file.exists
                 THEN TempestConf_read(Obj, defaults_file.content)
                 ELSE Obj)
    /\ Goto("deployer_input")
    /\ UNCHANGED << hist, cmdline, parsed, run, clients, services, cloud, calls,
                    local, resolved, outfile, first >>

\* the options of the deployer-input file, set with priority
DeployerInput ==
    /\ pc = "deployer_input"
    /\ StoreConf(IF deployer_input.exists
                 THEN set_all(Obj, items(deployer_input.content))
                 ELSE Obj)
    /\ Goto("overrides")
    /\ UNCHANGED << hist, cmdline, parsed, run, clients, services, cloud, calls,
                    local, resolved, outfile, first >>

\* the command-line overrides, set with priority
Overrides ==
    /\ pc = "overrides"
    /\ StoreConf(set_all(Obj, override_sets(parsed.triples)))
    /\ Goto("uri_v3")
    /\ UNCHANGED << hist, cmdline, parsed, run, clients, services, cloud, calls,
                    local, resolved, outfile, first >>

\* conf.set("identity", "uri_v3", uri.replace("v2.0", "v3"))
UriV3 ==
    /\ pc = "uri_v3"
    /\ LET uri == get(Obj, "identity", "uri")
           c == TempestConf_set(Obj, "identity", "uri_v3", replace_v2_v3(uri), FALSE)
       IN  IF IsError(uri)
           THEN Fail(uri) /\ UNCHANGED store
           ELSE IF IsError(c.ret)
           THEN Fail(c.ret) /\ StoreConf(c)
           ELSE Goto("non_admin") /\ StoreConf(c)
    /\ UNCHANGED << hist, cmdline, parsed, run, clients, services, cloud, calls,
                    local, resolved, outfile, first >>

\* a plausible slip: tenant isolation is left as it was
NonAdmin_isolation_kept ==
    /\ pc = "non_admin"
    /\ LET c == set_all(Obj, << << "identity", "admin_username", "", FALSE >>,
                               << "identity", "admin_tenant_name", "", FALSE >>,
                               << "identity", "admin_password", "", FALSE >> >>)
       IN  IF ~args.non_admin
           THEN Goto("client_manager") /\ UNCHANGED store
           ELSE IF IsError(c.ret)
           THEN Fail(c.ret) /\ StoreConf(c)
           ELSE Goto("client_manager") /\ StoreConf(c)
    /\ UNCHANGED << hist, cmdline, parsed, run, clients, services, cloud, calls,
                    local, resolved, outfile, first >>

\* if args.non_admin: the admin credentials are blanked
NonAdmin ==
    /\ pc = "non_admin"
    /\ LET c == set_all(Obj, << << "identity", "admin_username", "", FALSE >>,
                               << "identity", "admin_tenant_name", "", FALSE >>,
                               << "identity", "admin_password", "", FALSE >>,
                               << "compute", "allow_tenant_isolation", "False", FALSE >> >>)
       IN  IF ~args.non_admin
           THEN Goto("client_manager") /\ UNCHANGED store
           ELSE IF IsError(c.ret)
           THEN Fail(c.ret) /\ StoreConf(c)
           ELSE Goto("client_manager") /\ StoreConf(c)
    /\ UNCHANGED << hist, cmdline, parsed, run, clients, services, cloud, calls,
                    local, resolved, outfile, first >>

(***************************************************************************)
(* main(): the ClientManager, the discovery of the services and the users  *)
(* of the tests.                                                           *)
(***************************************************************************)
Call(service, op, arg, result) == << service, op, arg, result >>

Local(which, role, id, alt_id, label) ==
    [which |-> which, role |-> role, id |-> id, alt_id |-> alt_id, label |-> label]

\* the first exception among the values of a list of conf.get calls, or ""
RECURSIVE first_error(_)
first_error(values) ==
    IF values = << >> THEN ""
    ELSE IF IsError(Head(values)) THEN Head(values)
    ELSE first_error(Tail(values))

\* clients = ClientManager(conf, not args.non_admin)
ClientManagerInit ==
    /\ pc = "client_manager"
    /\ LET admin == ~args.non_admin
           insecure == get(Obj, "identity", "disable_ssl_certificate_validation")
           auth_url == get(Obj, "identity", "uri")
           username == get(Obj, "identity", IF admin THEN "admin_username" ELSE "username")
           password == get(Obj, "identity", IF admin THEN "admin_password" ELSE "password")
           tenant_name == get(Obj, "identity",
                              IF admin THEN "admin_tenant_name" ELSE "tenant_name")
           exception == first_error(<< insecure, auth_url, username, password,
                                       tenant_name >>)
       IN  IF exception # ""
           THEN Fail(exception) /\ UNCHANGED clients
           ELSE /\ Goto("identity_connect")
                /\ clients' = [identity |-> FALSE, compute |-> FALSE, image |-> FALSE,
                               network |-> FALSE, insecure |-> insecure,
                               auth_url |-> auth_url, username |-> username,
                               password |-> password, tenant_name |-> tenant_name]
    /\ UNCHANGED << store, fixed, parsed, services, cloud, calls, local, resolved,
                    outfile >>

\* what keystone knows of a user: the password, or Absent
UserPassword(keystone, name) ==
    IF name \in DOMAIN keystone.users THEN keystone.users[name] ELSE Absent

\* keystone accepts the credentials of the ClientManager
Authenticates ==
    /\ clients.auth_url = IdentityUri
    /\ UserPassword(cloud.keystone, clients.username) = clients.password
    /\ clients.tenant_name \in cloud.keystone.tenants

\* clients.identity, first use: keystone_client.Client(...) authenticates
IdentityConnect ==
    /\ pc = "identity_connect"
    /\ IF Authenticates
       THEN /\ clients' = [clients EXCEPT !.identity = TRUE]
            /\ calls' = Append(calls, Call("identity", "connect", clients.username, "ok"))
            /\ Goto("discover")
       ELSE /\ calls' = Append(calls, Call("identity", "connect", clients.username,
                                           "Unauthorized"))
            /\ Fail("Unauthorized")
            /\ UNCHANGED clients
    /\ UNCHANGED << store, fixed, parsed, services, cloud, local, resolved, outfile >>

\* a plausible slip: create_tempest_users called whatever args.create is
Discover_then_users ==
    /\ pc = "discover"
    /\ services' = cloud.catalog
    /\ calls' = Append(calls, Call("identity", "discover", "", "ok"))
    /\ Goto("tenant_create")
    /\ UNCHANGED << store, fixed, parsed, clients, cloud, local, resolved, outfile >>

\* services = api_discovery.discover(clients.identity): an entry for each
\* service of the catalog
Discover ==
    /\ pc = "discover"
    /\ services' = cloud.catalog
    /\ calls' = Append(calls, Call("identity", "discover", "", "ok"))
    /\ Goto(IF args.create THEN "tenant_create" ELSE "flavor_find_id")
    /\ UNCHANGED << store, fixed, parsed, clients, cloud, local, resolved, outfile >>

\* the arguments of create_user_with_tenant, first and second call
UserArgs(which) ==
    [username    |-> get(Obj, "identity", IF which = 1 THEN "username" ELSE "alt_username"),
     password    |-> get(Obj, "identity", IF which = 1 THEN "password" ELSE "alt_password"),
     tenant_name |-> get(Obj, "identity",
                         IF which = 1 THEN "tenant_name" ELSE "alt_tenant_name")]

\* identity_client.tenants.create(tenant_name, tenant_description)
TenantCreate ==
    /\ pc = "tenant_create"
    /\ LET a == UserArgs(local.which)
           exception == first_error(<< a.username, a.password, a.tenant_name >>)
       IN  IF exception # ""
           THEN Fail(exception) /\ UNCHANGED << cloud, calls >>
           ELSE IF a.tenant_name \in cloud.keystone.tenants
           THEN /\ calls' = Append(calls, Call("identity", "tenants.create",
                                               a.tenant_name, "Conflict"))
                /\ Goto("tenant_find")
                /\ UNCHANGED cloud
           ELSE /\ calls' = Append(calls, Call("identity", "tenants.create",
                                               a.tenant_name, "created"))
                /\ cloud' = [cloud EXCEPT !.keystone.tenants = @ \cup {a.tenant_name}]
                /\ Goto("tenant_find")
    /\ UNCHANGED << store, fixed, parsed, clients, services, local, resolved, outfile >>

\* tenant = identity_client.tenants.find(name=tenant_name)
TenantFind ==
    /\ pc = "tenant_find"
    /\ LET a == UserArgs(local.which)
       IN  IF a.tenant_name \in cloud.keystone.tenants
           THEN /\ calls' = Append(calls, Call("identity", "tenants.find",
                                               a.tenant_name, "found"))
                /\ Goto("user_create")
           ELSE /\ calls' = Append(calls, Call("identity", "tenants.find",
                                               a.tenant_name, "NotFound"))
                /\ Fail("NotFound")
    /\ UNCHANGED << store, fixed, parsed, clients, services, cloud, local, resolved,
                    outfile >>

\* where create_tempest_users goes on after a create_user_with_tenant
AfterUser(which) == IF which = 1 THEN "role_user_find" ELSE "flavor_find_id"

\* identity_client.users.create(name=username, password=password, ...)
UserCreate ==
    /\ pc = "user_create"
    /\ LET a == UserArgs(local.which)
       IN  IF UserPassword(cloud.keystone, a.username) # Absent
           THEN /\ calls' = Append(calls, Call("identity", "users.create",
                                               a.username, "Conflict"))
                /\ Goto("user_find")
                /\ UNCHANGED << cloud, local >>
           ELSE /\ calls' = Append(calls, Call("identity", "users.create",
                                               a.username, "created"))
                /\ cloud' = [cloud EXCEPT !.keystone.users =
                                [u \in DOMAIN @ \cup {a.username} |->
                                    IF u = a.username THEN a.password ELSE @[u]]]
                /\ Goto(AfterUser(local.which))
                /\ local' = Local(1, IF local.which = 1 THEN 1 ELSE 0, "", "", "")
    /\ UNCHANGED << store, fixed, parsed, clients, services, resolved, outfile >>

\* on Conflict: user = identity_client.users.find(name=username)
UserFind ==
    /\ pc = "user_find"
    /\ LET a == UserArgs(local.which)
       IN  IF UserPassword(cloud.keystone, a.username) # Absent
           THEN /\ calls' = Append(calls, Call("identity", "users.find",
                                               a.username, "found"))
                /\ Goto("user_update_password")
           ELSE /\ calls' = Append(calls, Call("identity", "users.find",
                                               a.username, "NotFound"))
                /\ Fail("NotFound")
    /\ UNCHANGED << store, fixed, parsed, clients, services, cloud, local, resolved,
                    outfile >>

\* a plausible slip: on Conflict the existing user is kept as it is
UserUpdatePassword_skipped ==
    /\ pc = "user_update_password"
    /\ calls' = Append(calls, Call("identity", "users.update_password",
                                   UserArgs(local.which).username, "updated"))
    /\ Goto(AfterUser(local.which))
    /\ local' = Local(1, IF local.which = 1 THEN 1 ELSE 0, "", "", "")
    /\ UNCHANGED << store, fixed, parsed, clients, services, cloud, resolved, outfile >>

\* on Conflict: identity_client.users.update_password(user.id, password)
UserUpdatePassword ==
    /\ pc = "user_update_password"
    /\ LET a == UserArgs(local.which)
       IN  /\ calls' = Append(calls, Call("identity", "users.update_password",
                                          a.username, "updated"))
           /\ cloud' = [cloud EXCEPT !.keystone.users[a.username] = a.password]
           /\ Goto(AfterUser(local.which))
           /\ local' = Local(1, IF local.which = 1 THEN 1 ELSE 0, "", "", "")
    /\ UNCHANGED << store, fixed, parsed, clients, services, resolved, outfile >>

\* a plausible slip: role_required left at its default in both calls
RoleArgs_all_required(role) ==
    [username    |-> get(Obj, "identity", IF role = 1 THEN "admin_username" ELSE "username"),
     tenant_name |-> get(Obj, "identity", "tenant_name"),
     role_name   |-> IF role = 1 THEN "admin" ELSE "heat_stack_owner",
     role_required |-> TRUE]

\* the arguments of give_role_to_user, first and second call
RoleArgs(role) ==
    [username    |-> get(Obj, "identity", IF role = 1 THEN "admin_username" ELSE "username"),
     tenant_name |-> get(Obj, "identity", "tenant_name"),
     role_name   |-> IF role = 1 THEN "admin" ELSE "heat_stack_owner",
     role_required |-> role = 1]

\* user_id = identity_client.users.find(name=username)
RoleUserFind ==
    /\ pc = "role_user_find"
    /\ LET a == RoleArgs(local.role)
           exception == first_error(<< a.username, a.tenant_name >>)
       IN  IF exception # ""
           THEN Fail(exception) /\ UNCHANGED calls
           ELSE IF UserPassword(cloud.keystone, a.username) # Absent
           THEN /\ calls' = Append(calls, Call("identity", "users.find",
                                               a.username, "found"))
                /\ Goto("role_tenant_find")
           ELSE /\ calls' = Append(calls, Call("identity", "users.find",
                                               a.username, "NotFound"))
                /\ Fail("NotFound")
    /\ UNCHANGED << store, fixed, parsed, clients, services, cloud, local, resolved,
                    outfile >>

\* tenant_id = identity_client.tenants.find(name=tenant_name)
RoleTenantFind ==
    /\ pc = "role_tenant_find"
    /\ LET a == RoleArgs(local.role)
       IN  IF a.tenant_name \in cloud.keystone.tenants
           THEN /\ calls' = Append(calls, Call("identity", "tenants.find",
                                               a.tenant_name, "found"))
                /\ Goto("role_find")
           ELSE /\ calls' = Append(calls, Call("identity", "tenants.find",
                                               a.tenant_name, "NotFound"))
                /\ Fail("NotFound")
    /\ UNCHANGED << store, fixed, parsed, clients, services, cloud, local, resolved,
                    outfile >>

\* where create_tempest_users goes on after a give_role_to_user
AfterRolePc(role) ==
    IF role = 1 /\ "orchestration" \in services THEN "role_user_find" ELSE "tenant_create"

AfterRoleLocal(role) ==
    IF role = 1 /\ "orchestration" \in services
    THEN Local(1, 2, "", "", "") ELSE Local(2, 0, "", "", "")

\* role_id = identity_client.roles.find(name=role_name)
RoleFind ==
    /\ pc = "role_find"
    /\ LET a == RoleArgs(local.role)
       IN  IF a.role_name \in cloud.keystone.roles
           THEN /\ calls' = Append(calls, Call("identity", "roles.find",
                                               a.role_name, "found"))
                /\ Goto("role_grant")
                /\ UNCHANGED local
           ELSE /\ calls' = Append(calls, Call("identity", "roles.find",
                                               a.role_name, "NotFound"))
                /\ IF a.role_required
                   THEN Fail("NotFound") /\ UNCHANGED local
                   ELSE Goto(AfterRolePc(local.role))
                        /\ local' = AfterRoleLocal(local.role)
    /\ UNCHANGED << store, fixed, parsed, clients, services, cloud, resolved, outfile >>

\* identity_client.tenants.add_user(tenant_id, user_id, role_id)
RoleGrant ==
    /\ pc = "role_grant"
    /\ LET a == RoleArgs(local.role)
           grant == << a.username, a.tenant_name, a.role_name >>
       IN  IF grant \in cloud.keystone.grants
           THEN /\ calls' = Append(calls, Call("identity", "tenants.add_user",
                                               a.role_name, "Conflict"))
                /\ UNCHANGED cloud
           ELSE /\ calls' = Append(calls, Call("identity", "tenants.add_user",
                                               a.role_name, "granted"))
                /\ cloud' = [cloud EXCEPT !.keystone.grants = @ \cup {grant}]
    /\ Goto(AfterRolePc(local.role))
    /\ local' = AfterRoleLocal(local.role)
    /\ UNCHANGED << store, fixed, parsed, clients, services, resolved, outfile >>

(***************************************************************************)
(* create_tempest_flavors and find_or_create_flavor.                       *)
(***************************************************************************)
\* what the find-or-create routines returned so far: nothing
NothingResolved ==
    [flavor_ref |-> "", flavor_ref_alt |-> "", image_ref |-> "", image_ref_alt |-> "",
     public_network_id |-> "", fixed_network_name |-> ""]

\* the connection a client property opens on its first use
Connect(service) ==
    IF clients[service] THEN << >> ELSE << Call(service, "connect", "", "ok") >>

\* a plausible slip: the lookup by id is left out
FirstWithId_skipped(resources, id) == ""

\* the first resource of a list with the id, or with the name: its id, or ""
FirstWithId(resources, id) ==
    IF \E n \in 1..Len(resources) : resources[n].id = id THEN id ELSE ""

FirstWithName(resources, name) ==
    IF \E n \in 1..Len(resources) : resources[n].name = name
    THEN resources[CHOOSE n \in 1..Len(resources) :
                      /\ resources[n].name = name
                      /\ \A m \in 1..(n - 1) : resources[m].name # name].id
    ELSE ""

FlavorKey(which) == IF which = 1 THEN "flavor_ref" ELSE "flavor_ref_alt"
FlavorName(which) == IF which = 1 THEN "m1.nano" ELSE "m1.micro"

\* flavor_id as create_tempest_flavors passes it: "" stands for None
ConfiguredId(c, key) ==
    IF has_option(c, "compute", key) THEN get(c, "compute", key) ELSE ""

\* if flavor_id: found = compute_client.flavors.findall(id=flavor_id)
FlavorFindById ==
    /\ pc = "flavor_find_id"
    /\ LET flavor_id == ConfiguredId(Obj, FlavorKey(local.which))
           found == FirstWithId(cloud.flavors, flavor_id)
       IN  IF flavor_id = ""
           THEN /\ Goto("flavor_find_name")
                /\ local' = [local EXCEPT !.id = ""]
                /\ UNCHANGED << clients, calls >>
           ELSE /\ clients' = [clients EXCEPT !.compute = TRUE]
                /\ calls' = calls \o Connect("compute")
                            \o << Call("compute", "flavors.findall_id", flavor_id,
                                       IF found = "" THEN "none" ELSE found) >>
                /\ local' = [local EXCEPT !.id = found]
                /\ Goto(IF found = "" THEN "flavor_find_name" ELSE "flavor_set")
    /\ UNCHANGED << store, fixed, parsed, services, cloud, resolved, outfile >>

\* "Flavor '%s' not found, but resource creation isn't allowed. ..." % flavor_name
FlavorNotFound(flavor_name) ==
    CASE flavor_name = "m1.nano"  -> "Flavor 'm1.nano' not found"
      [] flavor_name = "m1.micro" -> "Flavor 'm1.micro' not found"

\* a plausible slip: the lookup by name takes the last flavor found
FlavorByName_last(flavors, name) ==
    IF \E n \in 1..Len(flavors) : flavors[n].name = name
    THEN flavors[CHOOSE n \in 1..Len(flavors) :
                    /\ flavors[n].name = name
                    /\ \A m \in (n + 1)..Len(flavors) : flavors[m].name # name].id
    ELSE ""

\* found = compute_client.flavors.findall(name=flavor_name); flavor = found[0]
FlavorByName(flavors, name) == FirstWithName(flavors, name)

\* a plausible slip: creation is attempted whatever allow_creation says
FlavorMissing_ignored(flavor, allow_creation) == FALSE

\* if not flavor and not allow_creation: raise
FlavorMissing(flavor, allow_creation) == flavor = "" /\ ~allow_creation

\* if flavor_name and not flavor: the lookup by name, then raise or go on
FlavorFindByName ==
    /\ pc = "flavor_find_name"
    /\ LET found == FlavorByName(cloud.flavors, FlavorName(local.which))
       IN  /\ clients' = [clients EXCEPT !.compute = TRUE]
           /\ calls' = calls \o Connect("compute")
                       \o << Call("compute", "flavors.findall_name",
                                  FlavorName(local.which),
                                  IF found = "" THEN "none" ELSE found) >>
           /\ local' = [local EXCEPT !.id = found]
           /\ IF FlavorMissing(found, args.create)
              THEN Fail(FlavorNotFound(FlavorName(local.which)))
              ELSE Goto(IF found = "" THEN "flavor_create" ELSE "flavor_set")
    /\ UNCHANGED << store, fixed, parsed, services, cloud, resolved, outfile >>

\* flavor = compute_client.flavors.create(flavor_name, ram, vcpus, disk)
FlavorCreate ==
    /\ pc = "flavor_create"
    /\ LET id == NewId(FlavorIds, IdsOf(cloud.flavors))
       IN  IF \E n \in 1..Len(cloud.flavors) :
                 cloud.flavors[n].name = FlavorName(local.which)
           THEN \* nova refuses a second flavor of the name; nothing catches it
                /\ calls' = Append(calls, Call("compute", "flavors.create",
                                               FlavorName(local.which), "Conflict"))
                /\ Fail("Conflict")
                /\ UNCHANGED << cloud, local >>
           ELSE /\ cloud' = [cloud EXCEPT !.flavors =
                                 Append(@, Resource(id, FlavorName(local.which)))]
                /\ calls' = Append(calls, Call("compute", "flavors.create",
                                               FlavorName(local.which), id))
                /\ local' = [local EXCEPT !.id = id]
                /\ Goto("flavor_set")
    /\ UNCHANGED << store, fixed, parsed, clients, services, resolved, outfile >>

\* conf.set('compute', 'flavor_ref', flavor_id), and the same for flavor_ref_alt
FlavorSet ==
    /\ pc = "flavor_set"
    /\ LET c == TempestConf_set(Obj, "compute", FlavorKey(local.which), local.id, FALSE)
       IN  /\ StoreConf(c)
           /\ resolved' = IF local.which = 1
                          THEN [resolved EXCEPT !.flavor_ref = local.id]
                          ELSE [resolved EXCEPT !.flavor_ref_alt = local.id]
           /\ IF IsError(c.ret) THEN Fail(c.ret)
              ELSE Goto(IF local.which = 1 THEN "flavor_find_id" ELSE "image_find_id")
           /\ local' = Local(IF local.which = 1 THEN 2 ELSE 1, 0, "", "", "")
    /\ UNCHANGED << fixed, parsed, clients, services, cloud, calls, outfile >>

(***************************************************************************)
(* create_tempest_images, find_or_upload_image and _find_image.            *)
(***************************************************************************)
ImageKey(which) == IF which = 1 THEN "image_ref" ELSE "image_ref_alt"
ImageNameOf(which) == IF which = 1 THEN ImageName ELSE AltImageName

\* local with the image found for the call that is in progress
WithImage(l, id) == IF l.which = 1 THEN [l EXCEPT !.id = id] ELSE [l EXCEPT !.alt_id = id]

\* where create_tempest_images goes on after a find_or_upload_image
AfterImagePc(which) == IF which = 1 THEN "image_find_id" ELSE "images_set"

\* clients.image, then in _find_image: if image_id: image_client.images.get(image_id)
ImageFindById ==
    /\ pc = "image_find_id"
    /\ LET exception == IF local.which = 1
                        THEN first_error(<< get(Obj, "scenario", "img_dir"),
                                            get(Obj, "scenario", "qcow2_img_file") >>)
                        ELSE ""
           image_id == ConfiguredId(Obj, ImageKey(local.which))
           found == FirstWithId(cloud.images, image_id)
       IN  IF exception # ""
           THEN Fail(exception) /\ UNCHANGED << clients, calls, local >>
           ELSE IF ~clients.image /\ "image" \notin cloud.catalog
           THEN Fail("EndpointNotFound") /\ UNCHANGED << clients, calls, local >>
           ELSE /\ clients' = [clients EXCEPT !.image = TRUE]
                /\ IF image_id = ""
                   THEN /\ calls' = calls \o Connect("image")
                        /\ Goto("image_list")
                        /\ UNCHANGED local
                   ELSE /\ calls' = calls \o Connect("image")
                                    \o << Call("image", "images.get", image_id,
                                               IF found = "" THEN "HTTPNotFound"
                                               ELSE found) >>
                        /\ IF found = ""
                           THEN Goto("image_list") /\ UNCHANGED local
                           ELSE /\ Goto(AfterImagePc(local.which))
                                /\ local' = [WithImage(local, found) EXCEPT !.which = 2]
    /\ UNCHANGED << store, fixed, parsed, services, cloud, resolved, outfile >>

\* "Image '%s' not found, but resource creation isn't allowed. ..." % image_name
ImageNotFound(image_name) ==
    IF image_name = ImageName THEN "Image 'cirros-0.3.1-x86_64-disk.img' not found"
    ELSE "Image 'cirros-0.3.1-x86_64-disk.img_alt' not found"

\* a plausible slip: an image is uploaded whatever allow_creation says
ImageMissing_ignored(image, allow_creation) == FALSE

\* if not image and not allow_creation: raise
ImageMissing(image, allow_creation) == image = "" /\ ~allow_creation

\* found = filter(lambda x: x.name == image_name, image_client.images.list())
ImageList ==
    /\ pc = "image_list"
    /\ LET found == FirstWithName(cloud.images, ImageNameOf(local.which))
       IN  /\ calls' = Append(calls, Call("image", "images.list",
                                          ImageNameOf(local.which),
                                          IF found = "" THEN "none" ELSE found))
           /\ IF ImageMissing(found, args.create)
              THEN Fail(ImageNotFound(ImageNameOf(local.which))) /\ UNCHANGED local
              ELSE IF found = ""
              THEN Goto("image_download") /\ UNCHANGED local
              ELSE /\ Goto(AfterImagePc(local.which))
                   /\ local' = [WithImage(local, found) EXCEPT !.which = 2]
    /\ UNCHANGED << store, fixed, parsed, clients, services, cloud, resolved, outfile >>

\* _download_file(image_source, image_dest)
ImageDownload ==
    /\ pc = "image_download"
    /\ calls' = Append(calls, Call("http", "urlopen", DEFAULT_IMAGE, "ok"))
    /\ Goto("image_upload")
    /\ UNCHANGED << store, fixed, parsed, clients, services, cloud, local, resolved,
                    outfile >>

\* image = _upload_image(clients.image, image_name, image_dest); clients._image = None
ImageUpload ==
    /\ pc = "image_upload"
    /\ LET id == NewId(ImageIds, IdsOf(cloud.images))
       IN  /\ cloud' = [cloud EXCEPT !.images =
                            Append(@, Resource(id, ImageNameOf(local.which)))]
           /\ calls' = calls \o Connect("image")
                       \o << Call("image", "images.create", ImageNameOf(local.which), id) >>
           /\ local' = [WithImage(local, id) EXCEPT !.which = 2]
    /\ clients' = [clients EXCEPT !.image = FALSE]
    /\ Goto(AfterImagePc(local.which))
    /\ UNCHANGED << store, fixed, parsed, services, resolved, outfile >>

\* conf.set('compute', 'image_ref', image_id) and the same for image_ref_alt
ImagesSet ==
    /\ pc = "images_set"
    /\ LET c == set_all(Obj, << << "compute", "image_ref", local.id, FALSE >>,
                               << "compute", "image_ref_alt", local.alt_id, FALSE >> >>)
       IN  /\ StoreConf(c)
           /\ resolved' = [resolved EXCEPT !.image_ref = local.id,
                                           !.image_ref_alt = local.alt_id]
           /\ IF IsError(c.ret) THEN Fail(c.ret)
              ELSE Goto(IF "network" \in services THEN "network_list"
                        ELSE "nova_networks_list")
    /\ local' = Local(1, 0, "", "", "")
    /\ UNCHANGED << fixed, parsed, clients, services, cloud, calls, outfile >>

(***************************************************************************)
(* create_tempest_networks.                                                *)
(***************************************************************************)
\* network['subnets'] is not empty
HasSubnets(network) ==
    \E n \in 1..Len(cloud.subnets) : cloud.subnets[n].network_id = network.id

\* the first network of the listing among those a test accepts, or 0 (the else
\* of the for)
FirstNetwork(accepted) ==
    IF accepted = {} THEN 0
    ELSE CHOOSE n \in accepted : \A m \in accepted : n <= m

\* a plausible slip: the id of the network is not compared
HasSuppliedId_any(network) == TRUE

\* network['id'] == public_network_id
HasSuppliedId(network) == network.id = args.network_id

\* a plausible slip: the test on the subnets is left out
IsPublic_external_only(network) == network.external

\* a plausible slip: the test on the subnets is inverted
IsPublic_without_subnets(network) == network.external /\ ~HasSubnets(network)

\* network['router:external'] and network['subnets']
IsPublic(network) == network.external /\ HasSubnets(network)

\* client = clients.network; network_list = client.list_networks() and the for loop
NetworkList ==
    /\ pc = "network_list"
    /\ clients' = [clients EXCEPT !.network = TRUE]
    /\ LET listing == 1..Len(cloud.networks)
           n == IF args.network_id # ""
                THEN FirstNetwork({ k \in listing : HasSuppliedId(cloud.networks[k]) })
                ELSE FirstNetwork({ k \in listing : IsPublic(cloud.networks[k]) })
       IN  /\ calls' = calls \o Connect("network")
                       \o << Call("network", "list_networks", args.network_id,
                                  IF n = 0 THEN "none" ELSE cloud.networks[n].id) >>
           /\ IF n # 0
              THEN /\ local' = [local EXCEPT !.id = cloud.networks[n].id,
                                             !.label = cloud.networks[n].name]
                   /\ Goto("network_set")
              ELSE /\ UNCHANGED local
                   /\ IF args.network_id # "" THEN Fail("ValueError")
                      ELSE IF args.create THEN Goto("network_create")
                      ELSE Fail("RuntimeError")
    /\ UNCHANGED << store, fixed, parsed, services, cloud, resolved, outfile >>

\* network = client.create_network(network_body)['network']
NetworkCreate ==
    /\ pc = "network_create"
    /\ LET id == NewId(NetworkIds, IdsOf(cloud.networks))
       IN  /\ cloud' = [cloud EXCEPT !.networks =
                            Append(@, Network(id, DEFAULT_NETWORK_NAME, TRUE))]
           /\ calls' = Append(calls, Call("network", "create_network",
                                          DEFAULT_NETWORK_NAME, id))
           /\ local' = [local EXCEPT !.id = id, !.alt_id = DEFAULT_NETWORK_NAME]
    /\ Goto("subnet_create")
    /\ UNCHANGED << store, fixed, parsed, clients, services, resolved, outfile >>

\* a plausible slip: the network is created and no subnet for it
SubnetCreate_skipped ==
    /\ pc = "subnet_create"
    /\ local' = [local EXCEPT !.label = local.alt_id]
    /\ Goto("network_set")
    /\ UNCHANGED << store, fixed, parsed, clients, services, cloud, calls, resolved,
                    outfile >>

\* client.create_subnet(subnet_body): neutron refuses a subnet without a cidr
SubnetCreate ==
    /\ pc = "subnet_create"
    /\ IF args.subnet_cidr = ""
       THEN /\ calls' = Append(calls, Call("network", "create_subnet", local.id,
                                           "BadRequest"))
            /\ Fail("BadRequest")
            /\ UNCHANGED << cloud, local >>
       ELSE LET id == NewId(SubnetIds, IdsOf(cloud.subnets))
            IN  /\ cloud' = [cloud EXCEPT !.subnets = Append(@, Subnet(id, local.id))]
                /\ calls' = Append(calls, Call("network", "create_subnet", local.id, id))
                /\ local' = [local EXCEPT !.label = local.alt_id]
                /\ Goto("network_set")
    /\ UNCHANGED << store, fixed, parsed, clients, services, resolved, outfile >>

\* conf.set('network', 'public_network_id', public_network_id)
NetworkSet ==
    /\ pc = "network_set"
    /\ LET c == TempestConf_set(Obj, "network", "public_network_id", local.id, FALSE)
       IN  /\ StoreConf(c)
           /\ resolved' = [resolved EXCEPT !.public_network_id = local.id]
           /\ IF IsError(c.ret) THEN Fail(c.ret) ELSE Goto("fixed_network_set")
    /\ UNCHANGED << fixed, parsed, clients, services, cloud, calls, local, outfile >>

\* a plausible slip: the label of the last network of the listing
NovaNetworksList_last ==
    /\ pc = "nova_networks_list"
    /\ clients' = [clients EXCEPT !.compute = TRUE]
    /\ LET label == IF cloud.nova_networks = << >> THEN ""
                    ELSE cloud.nova_networks[Len(cloud.nova_networks)]
       IN  /\ calls' = calls \o Connect("compute")
                       \o << Call("compute", "networks.list", "",
                                  IF label = "" THEN "none" ELSE label) >>
           /\ local' = [local EXCEPT !.label = label]
    /\ Goto("fixed_network_set")
    /\ UNCHANGED << store, fixed, parsed, services, cloud, resolved, outfile >>

\* networks = clients.compute.networks.list(); label = networks[0].label
NovaNetworksList ==
    /\ pc = "nova_networks_list"
    /\ clients' = [clients EXCEPT !.compute = TRUE]
    /\ LET label == IF cloud.nova_networks = << >> THEN "" ELSE cloud.nova_networks[1]
       IN  /\ calls' = calls \o Connect("compute")
                       \o << Call("compute", "networks.list", "",
                                  IF label = "" THEN "none" ELSE label) >>
           /\ local' = [local EXCEPT !.label = label]
    /\ Goto("fixed_network_set")
    /\ UNCHANGED << store, fixed, parsed, services, cloud, resolved, outfile >>

\* if label: conf.set('compute', 'fixed_network_name', label) else: raise
FixedNetworkSet ==
    /\ pc = "fixed_network_set"
    /\ IF local.label = ""
       THEN Fail("fixed_network_name could not be discovered")
            /\ UNCHANGED << store, resolved >>
       ELSE LET c == TempestConf_set(Obj, "compute", "fixed_network_name",
                                     local.label, FALSE)
            IN  /\ StoreConf(c)
                /\ resolved' = [resolved EXCEPT !.fixed_network_name = local.label]
                /\ IF IsError(c.ret) THEN Fail(c.ret)
                   ELSE Goto("configure_discovered_services")
    /\ UNCHANGED << fixed, parsed, clients, services, cloud, calls, local, outfile >>

(***************************************************************************)
(* configure_discovered_services, configure_boto, configure_cli,           *)
(* configure_horizon and the writing of the result.                        *)
(***************************************************************************)
\* str(bool)
str(b) == IF b THEN "True" ELSE "False"

\* what discover reports for a service of the catalog
Extensions(service) == "ext-a,ext-b"

Versions(service) ==
    CASE service = "identity" -> { "v2.0", "v3.0" }
      [] service = "image"    -> { "v1.0", "v1.1", "v2.0" }
      [] service = "volume"   -> { "v1.0" }
      [] OTHER                -> { "v2.0" }

Url(service) ==
    CASE service = "ec2" -> "http://cloud:8773/services/Cloud"
      [] service = "s3"  -> "http://cloud:3333"
      [] OTHER           -> "http://cloud"

\* version in item
VersionIn(version, item) ==
    \/ version = "v1" /\ item \in { "v1.0", "v1.1" }
    \/ version = "v2" /\ item = "v2.0"
    \/ version = "v3" /\ item = "v3.0"

\* the keys of the tables, in the order of iteration
ServiceNamesOrder ==
    << "baremetal", "compute", "database", "data_processing", "image", "network",
       "object-store", "orchestration", "telemetry", "volume", "queuing" >>
ServiceExtensionOrder == << "compute", "object-storage", "network", "volume" >>
ServiceVersionsOrder ==
    << <<"image", "v1">>, <<"image", "v2">>, <<"identity", "v2">>,
       <<"identity", "v3">>, <<"volume", "v1">>, <<"volume", "v2">>,
       <<"compute", "v3">> >>

\* the first loop: service availability
AvailabilitySets(srv) ==
    [n \in 1..Len(ServiceNamesOrder) |->
        LET service == IF ServiceNamesOrder[n] = "telemetry" /\ "metering" \in srv
                       THEN "metering" ELSE ServiceNamesOrder[n]
        IN  << "service_available", SERVICE_NAMES[ServiceNamesOrder[n]],
               str(service \in srv), FALSE >>]

\* the second loop: the extensions of the services that are there
ExtensionSets(srv) ==
    LET present == SelectSeq(ServiceExtensionOrder, LAMBDA service : service \in srv)
    IN  [n \in 1..Len(present) |->
            << FeatureSection(present[n]), SERVICE_EXTENSION_KEY[present[n]],
               Extensions(present[n]), FALSE >>]

\* the third loop: the API versions
VersionSets(srv) ==
    [n \in 1..Len(ServiceVersionsOrder) |->
        LET service == ServiceVersionsOrder[n][1]
            version == ServiceVersionsOrder[n][2]
        IN  << FeatureSection(service), ApiOption(version),
               str(\E item \in Versions(service) : VersionIn(version, item)), FALSE >>]

\* configure_discovered_services(conf, services); services[service] raises
\* KeyError for a service of SERVICE_VERSIONS that was not discovered
ConfigureDiscoveredServices ==
    /\ pc = "configure_discovered_services"
    /\ IF DOMAIN SERVICE_VERSIONS \subseteq services
       THEN LET c == set_all(Obj, AvailabilitySets(services) \o ExtensionSets(services)
                                  \o VersionSets(services))
            IN  /\ StoreConf(c)
                /\ IF IsError(c.ret) THEN Fail(c.ret) ELSE Goto("configure_boto")
       ELSE LET c == set_all(Obj, AvailabilitySets(services) \o ExtensionSets(services))
            IN  /\ StoreConf(c)
                /\ IF IsError(c.ret) THEN Fail(c.ret) ELSE Fail("KeyError")
    /\ UNCHANGED << fixed, parsed, clients, services, cloud, calls, local, resolved,
                    outfile >>

\* configure_boto(conf, services)
ConfigureBoto ==
    /\ pc = "configure_boto"
    /\ LET c == set_all(Obj,
                    (IF "ec2" \in services
                     THEN << << "boto", "ec2_url", Url("ec2"), FALSE >> >> ELSE << >>)
                    \o (IF "s3" \in services
                        THEN << << "boto", "s3_url", Url("s3"), FALSE >> >> ELSE << >>))
       IN  /\ StoreConf(c)
           /\ IF IsError(c.ret) THEN Fail(c.ret) ELSE Goto("configure_cli")
    /\ UNCHANGED << fixed, parsed, clients, services, cloud, calls, local, resolved,
                    outfile >>

\* configure_cli(conf): get_program_dir("nova") and get_program_dir("nova-manage")
ConfigureCli ==
    /\ pc = "configure_cli"
    /\ LET c == set_all(Obj,
                    (IF cloud.nova_dir # ""
                     THEN << << "cli", "enabled", "True", FALSE >>,
                             << "cli", "cli_dir", cloud.nova_dir, FALSE >> >>
                     ELSE << << "cli", "enabled", "False", FALSE >> >>)
                    \o << << "cli", "has_manage", str(cloud.nova_manage), FALSE >> >>)
       IN  /\ StoreConf(c)
           /\ IF IsError(c.ret) THEN Fail(c.ret) ELSE Goto("configure_horizon")
    /\ UNCHANGED << fixed, parsed, clients, services, cloud, calls, local, resolved,
                    outfile >>

\* base.startswith('http:') or base.startswith('https:')
starts_with_http(base) == base = "http://keystone/dashboard"

\* configure_horizon(conf)
ConfigureHorizon ==
    /\ pc = "configure_horizon"
    /\ LET uri == get(Obj, "identity", "uri")
           base == dashboard_base(uri)
           c == set_all(Obj, << << "service_available", "horizon", str(cloud.horizon),
                                   FALSE >>,
                                << "dashboard", "dashboard_url", dashboard_url(base),
                                   FALSE >>,
                                << "dashboard", "login_url", login_url(base), FALSE >> >>)
       IN  IF IsError(uri) THEN Fail(uri) /\ UNCHANGED << store, calls >>
           ELSE IF ~starts_with_http(base)
           THEN Fail("AssertionError") /\ UNCHANGED << store, calls >>
           ELSE /\ calls' = Append(calls, Call("http", "urlopen", base,
                                               IF cloud.horizon THEN "ok" ELSE "URLError"))
                /\ StoreConf(c)
                /\ IF IsError(c.ret) THEN Fail(c.ret) ELSE Goto("write")
    /\ UNCHANGED << fixed, parsed, clients, services, cloud, local, resolved, outfile >>

\* what conf.write puts in the file: the options that exist
Written(c) == [kk \in { k \in DOMAIN c.values : c.values[k] # Absent } |-> c.values[kk]]

\* with open(args.out, 'w') as f: conf.write(f)
Write ==
    /\ pc = "write"
    /\ outfile' = File(Written(Obj))
    /\ Goto("done")
    /\ UNCHANGED << store, fixed, parsed, clients, services, cloud, calls, local,
                    resolved >>

(***************************************************************************)
(* The environment: a remote call that fails, and the tool invoked again   *)
(* with the same command line.                                             *)
(***************************************************************************)
\* the statements that call a service
RemoteSteps ==
    { "identity_connect", "discover", "tenant_create", "tenant_find", "user_create",
      "user_find", "user_update_password", "role_user_find", "role_tenant_find",
      "role_find", "role_grant", "flavor_find_name", "flavor_create", "image_list",
      "image_download", "image_upload", "network_list", "network_create",
      "subnet_create", "nova_networks_list" }

\* the service does not answer: the client raises
RemoteFailure ==
    /\ pc \in RemoteSteps
    /\ ~cloud.reliable
    /\ Fail("ConnectionError")
    /\ UNCHANGED << store, fixed, parsed, clients, services, cloud, calls, local,
                    resolved, outfile >>

\* another process that sets up the same cloud creates, just before this run's
\* create call, the resource the call is for
OtherProcessCreates ==
    /\ cloud.shared
    /\ \/ /\ pc = "tenant_create"
          /\ ~IsError(UserArgs(local.which).tenant_name)
          /\ UserArgs(local.which).tenant_name \notin cloud.keystone.tenants
          /\ cloud' = [cloud EXCEPT !.keystone.tenants =
                           @ \cup { UserArgs(local.which).tenant_name }]
       \/ /\ pc = "user_create"
          /\ UserPassword(cloud.keystone, UserArgs(local.which).username) = Absent
          /\ cloud' = [cloud EXCEPT !.keystone.users =
                           [u \in DOMAIN @ \cup { UserArgs(local.which).username } |->
                               IF u = UserArgs(local.which).username THEN "other"
                               ELSE @[u]]]
       \/ /\ pc = "flavor_create"
          /\ \A n \in 1..Len(cloud.flavors) :
                cloud.flavors[n].name # FlavorName(local.which)
          /\ cloud' = [cloud EXCEPT !.flavors =
                           Append(@, Resource(NewId(FlavorIds, IdsOf(cloud.flavors)),
                                              FlavorName(local.which)))]
       \/ /\ pc = "image_upload"
          /\ \A n \in 1..Len(cloud.images) :
                cloud.images[n].name # ImageNameOf(local.which)
          /\ cloud' = [cloud EXCEPT !.images =
                           Append(@, Resource(NewId(ImageIds, IdsOf(cloud.images)),
                                              ImageNameOf(local.which)))]
       \/ /\ pc = "network_create"
          /\ \A n \in 1..Len(cloud.networks) :
                cloud.networks[n].name # DEFAULT_NETWORK_NAME
          /\ cloud' = [cloud EXCEPT !.networks =
                           Append(@, Network(NewId(NetworkIds, IdsOf(cloud.networks)),
                                             DEFAULT_NETWORK_NAME, TRUE))]
    /\ UNCHANGED << store, fixed, parsed, pc, error, clients, services, calls, local,
                    resolved, outfile >>

\* the tool is invoked a second time: a new process, the same command line and
\* files, the cloud as the first invocation left it
Rerun ==
    /\ pc \in { "done", "failed" }
    /\ run = 1
    /\ run' = 2
    /\ first' = [pc |-> pc, error |-> error, resolved |-> resolved, calls |-> calls,
                 cloud |-> cloud, outfile |-> outfile]
    /\ conf' = NewConf
    /\ priority_sectionkeys' = {}
    /\ parsed' = Unparsed
    /\ pc' = "parse_arguments"
    /\ error' = ""
    /\ clients' = NoClients
    /\ services' = {}
    /\ calls' = << >>
    /\ local' = Local(1, 0, "", "", "")
    /\ resolved' = NothingResolved
    /\ UNCHANGED << hist, cmdline, cloud, outfile >>

(***************************************************************************)
(* The invocations that are followed: a command line, the two files and a  *)
(* cloud.  Each family varies one part of the input over all its cases and *)
(* takes the rest from a cloud as installed or a cloud that is ready.      *)
(***************************************************************************)
Args(create, non_admin, network_id, subnet_cidr) ==
    [create |-> create, non_admin |-> non_admin, network_id |-> network_id,
     subnet_cidr |-> subnet_cidr]

SubnetCidr == "10.0.0.0/24"

\* a file's content with one more option
With(content, kk, value) ==
    [k \in DOMAIN content \cup {kk} |-> IF k = kk THEN value ELSE content[k]]

Only(kk, value) == [k \in {kk} |-> value]

Scenario(ov, a, df, di, cl) ==
    [overrides |-> ov, args |-> a, defaults_file |-> df, deployer_input |-> di,
     cloud |-> cl]

Flags == { Args(c, n, "", SubnetCidr) : c \in BOOLEAN, n \in BOOLEAN }

\* an option of the user in the defaults file, the deployer-input file and the
\* command line, or in some of them
LayerScenarios ==
    { Scenario(CASE t[4] = "none"  -> << >>
                 [] t[4] = "once"  -> << KeyWord(t[1]), <<"c">> >>
                 [] t[4] = "twice" -> << KeyWord(t[1]), <<"c">>, KeyWord(t[1]), <<"c2">> >>,
               t[5],
               File(IF t[2] THEN With(DefaultsBase, t[1], "d") ELSE DefaultsBase),
               CASE t[3] = "none"  -> NoFile
                 [] t[3] = "key"   -> File(Only(t[1], "p"))
                 [] t[3] = "other" -> File(Only(<<"compute", "image_ref">>, "i1")),
               t[6]) :
        t \in UserKeys \X BOOLEAN \X { "none", "key", "other" }
              \X { "none", "once", "twice" } \X Flags \X { CloudNew, CloudReady } }

\* no defaults file, and command lines that parse_arguments refuses
UsageScenarios ==
    { Scenario(ov, a, df, NoFile, CloudReady) :
        ov \in { << >>,
                 << <<"identity", Dot, "uri">>, <<IdentityUri>> >>,
                 << <<"a">> >>,
                 << <<"a">>, <<"b">> >>,
                 << <<"identity", Dot, "uri">>, <<IdentityUri>>,
                    <<"a", Dot, "b", Dot, "c">>, <<"x">> >> },
        a \in Flags, df \in { NoFile, File(DefaultsBase) } }

KeystoneStates ==
    { Keystone({"admin"} \cup tenants,
               [u \in UserNames |-> CASE u = "admin" -> "adminpw"
                                      [] u = "demo" -> pw[1]
                                      [] u = "alt_demo" -> pw[2]],
               roles, grants) :
        tenants \in SUBSET { "demo", "alt_demo" },
        pw \in { Absent, "secret", "old" } \X { Absent, "secret" },
        roles \in { {}, {"admin"}, RoleNames },
        grants \in { KeystoneNew.grants, KeystoneReady.grants } }

\* keystone in every state, with and without heat
KeystoneScenarios ==
    { Scenario(<< >>, Args(TRUE, FALSE, "", SubnetCidr), File(DefaultsBase), NoFile,
               [CloudReady EXCEPT !.keystone = k, !.catalog = @ \cup x]) :
        k \in KeystoneStates, x \in { {}, {"orchestration"} } }

\* how an id gets configured for a key: not at all, by the defaults file, or
\* by an override
Configured == { <<"none", "">> } \cup ( {"defaults"} \X { "1", NoSuchId } )
              \cup ( {"override"} \X { "1", NoSuchId, "" } )

ConfiguredScenario(kk, how, id, create, cl) ==
    Scenario(IF how = "override"
             THEN << KeyWord(kk), IF id = "" THEN << >> ELSE << id >> >> ELSE << >>,
             Args(create, FALSE, "", SubnetCidr),
             File(IF how = "defaults" THEN With(DefaultsBase, kk, id) ELSE DefaultsBase),
             NoFile, cl)

\* the flavors in every state, and an id configured or not
FlavorScenarios ==
    { ConfiguredScenario(<<"compute", "flavor_ref">>, how[1],
                         IF how[2] = "1" THEN "f1" ELSE how[2], create,
                         [CloudReady EXCEPT !.flavors = flavors]) :
        how \in Configured, create \in BOOLEAN,
        flavors \in ResourceLists(FlavorIds, { "m1.nano", "m1.micro", "m1.tiny" }) }

\* the images in every state, and an id configured or not
ImageScenarios ==
    { ConfiguredScenario(<<"compute", "image_ref">>, how[1],
                         IF how[2] = "1" THEN "i1" ELSE how[2], create,
                         [CloudReady EXCEPT !.images = images]) :
        how \in Configured, create \in BOOLEAN,
        images \in ResourceLists(ImageIds, { ImageName, AltImageName, "fedora" }) }

\* neutron's networks in every state, and --network-id given or not
NetworkScenarios ==
    UNION { { Scenario(<< >>, a, File(DefaultsBase), NoFile,
                       [CloudReady EXCEPT !.networks = networks, !.subnets = subnets]) :
                subnets \in SubnetLists(networks),
                a \in { Args(FALSE, FALSE, id, "") : id \in { "", "n1", NoSuchId } }
                      \cup { Args(TRUE, FALSE, id, cidr) :
                                id \in { "", "n1", NoSuchId }, cidr \in { "", SubnetCidr } } } :
            networks \in NetworkLists }

\* a cloud with nova-network
NovaNetworkScenarios ==
    { Scenario(<< >>, Args(create, FALSE, id, SubnetCidr), File(DefaultsBase), NoFile,
               [CloudReady EXCEPT !.catalog = BaseCatalog, !.nova_networks = labels]) :
        create \in BOOLEAN, id \in { "", "n1" },
        labels \in { << >>, << "private" >>, << "private", "other" >>,
                     << "other", "private" >> } }

\* the catalog with and without the services the tool asks about, and the host
\* with and without the programs
CatalogScenarios ==
    { Scenario(<< >>, Args(FALSE, FALSE, "", SubnetCidr), File(DefaultsBase), NoFile,
               [CloudReady EXCEPT !.catalog = catalog]) :
        catalog \in { (BaseCatalog \cup {"network"} \cup x) \ y :
                        x \in SUBSET { "ec2", "s3", "metering", "telemetry",
                                       "orchestration", "object-store" },
                        y \in { {}, {"volume"}, {"image"}, {"compute"} } } }
    \cup
    { Scenario(<< >>, Args(FALSE, FALSE, "", SubnetCidr), File(DefaultsBase), NoFile,
               [CloudReady EXCEPT !.nova_dir = d, !.nova_manage = m, !.horizon = h]) :
        d \in { "", "/usr/bin" }, m \in BOOLEAN, h \in BOOLEAN }

\* services that may fail to answer
FlakyScenarios ==
    { Scenario(<< >>, Args(create, FALSE, "", SubnetCidr), File(DefaultsBase), NoFile,
               [cl EXCEPT !.reliable = FALSE]) :
        create \in BOOLEAN,
        cl \in { CloudNew, CloudReady,
                 [CloudNew EXCEPT !.catalog = @ \cup {"orchestration"},
                                  !.keystone.roles = RoleNames] } }

\* a cloud that another process sets up at the same time
SharedScenarios ==
    { Scenario(<< >>, Args(TRUE, FALSE, "", SubnetCidr), File(DefaultsBase), NoFile,
               [cl EXCEPT !.shared = TRUE]) :
        cl \in { CloudNew, [CloudReady EXCEPT !.flavors = << >>],
                 [CloudReady EXCEPT !.images = << >>, !.networks = << >>,
                                    !.subnets = << >>] } }

Scenarios ==
    LayerScenarios \cup UsageScenarios \cup KeystoneScenarios \cup FlavorScenarios
    \cup ImageScenarios \cup NetworkScenarios \cup NovaNetworkScenarios
    \cup CatalogScenarios \cup FlakyScenarios \cup SharedScenarios

(***************************************************************************)
(* The tool, invoked once and then once more.                              *)
(***************************************************************************)
Init ==
    /\ \E sc \in Scenarios :
        /\ overrides = sc.overrides
        /\ args = sc.args
        /\ defaults_file = sc.defaults_file
        /\ deployer_input = sc.deployer_input
        /\ cloud = sc.cloud
    /\ conf = NewConf
    /\ priority_sectionkeys = {}
    /\ prio_written = {}
    /\ last = NoCall
    /\ parsed = Unparsed
    /\ pc = "parse_arguments"
    /\ run = 1
    /\ error = ""
    /\ clients = NoClients
    /\ services = {}
    /\ calls = << >>
    /\ local = Local(1, 0, "", "", "")
    /\ resolved = NothingResolved
    /\ outfile = NoFile
    /\ first = [pc |-> "none", error |-> "", resolved |-> NothingResolved,
                calls |-> << >>, cloud |-> CloudNew, outfile |-> NoFile]

Next ==
    \/ ParseArguments \/ ReadDefaults \/ DeployerInput \/ Overrides \/ UriV3
    \/ NonAdmin \/ ClientManagerInit \/ IdentityConnect \/ Discover
    \/ TenantCreate \/ TenantFind \/ UserCreate \/ UserFind \/ UserUpdatePassword
    \/ RoleUserFind \/ RoleTenantFind \/ RoleFind \/ RoleGrant
    \/ FlavorFindById \/ FlavorFindByName \/ FlavorCreate \/ FlavorSet
    \/ ImageFindById \/ ImageList \/ ImageDownload \/ ImageUpload \/ ImagesSet
    \/ NetworkList \/ NetworkCreate \/ SubnetCreate \/ NetworkSet
    \/ NovaNetworksList \/ FixedNetworkSet
    \/ ConfigureDiscoveredServices \/ ConfigureBoto \/ ConfigureCli
    \/ ConfigureHorizon \/ Write
    \/ RemoteFailure \/ OtherProcessCreates \/ Rerun

Spec == Init /\ [][Next]_vars

(***************************************************************************)
(* Claims about the layers of configuration (checked under Spec).          *)
(***************************************************************************)
\* the positions of the command line where kk is the key of a pair
CliPositions(kk) ==
    { n \in 1..Len(overrides) : n % 2 = 1 /\ n < Len(overrides)
                                /\ overrides[n] = KeyWord(kk) }

CliGives(kk) == CliPositions(kk) # {}

\* the value of the last pair of the command line that names kk
CliValue(kk) ==
    Str(overrides[1 + CHOOSE n \in CliPositions(kk) : \A m \in CliPositions(kk) : m <= n])

DeployerGives(kk) == deployer_input.exists /\ kk \in DOMAIN deployer_input.content

DefaultsGives(kk) == defaults_file.exists /\ kk \in DOMAIN defaults_file.content

\* what the user supplied for kk: the command line's value, else the
\* deployer-input file's
UserValue(kk) == IF CliGives(kk) THEN CliValue(kk) ELSE deployer_input.content[kk]

LayeredValue(kk) ==
    IF CliGives(kk) \/ DeployerGives(kk) THEN UserValue(kk)
    ELSE defaults_file.content[kk]

\* C5: at the end of a successful run, every option that the deployer-input
\* file or a command-line override supplied has the user's value in the file
\* that was written, whatever the later phases tried to write to it.
C5_UserValuesSurvive ==
    pc = "done" =>
        /\ outfile.exists
        /\ \A kk \in ConfKeys :
              DeployerGives(kk) \/ CliGives(kk) =>
                  /\ kk \in DOMAIN outfile.content
                  /\ outfile.content[kk] = UserValue(kk)

\* a run ended well in which the user supplied compute.flavor_ref and the
\* flavor phase resolved another id and tried to write it
C5_Witness ==
    /\ pc = "done"
    /\ CliGives(<<"compute", "flavor_ref">>) \/ DeployerGives(<<"compute", "flavor_ref">>)
    /\ resolved.flavor_ref \notin { "", UserValue(<<"compute", "flavor_ref">>) }
    /\ outfile.content[<<"compute", "flavor_ref">>] = UserValue(<<"compute", "flavor_ref">>)

\* C6: once the command-line overrides are applied, an option given in the
\* defaults file, the deployer-input file or the command line holds the
\* command line's value if there is one, else the deployer-input file's, else
\* the defaults file's.
C6_LayerPrecedence ==
    pc = "uri_v3" =>
        \A kk \in ConfKeys :
            DefaultsGives(kk) \/ DeployerGives(kk) \/ CliGives(kk) =>
                get(Obj, kk[1], kk[2]) = LayeredValue(kk)

\* an option given in all three layers holds the command line's value, which
\* differs from the two others
C6_Witness ==
    /\ pc = "uri_v3"
    /\ \E kk \in ConfKeys :
          /\ DefaultsGives(kk) /\ DeployerGives(kk) /\ CliGives(kk)
          /\ get(Obj, kk[1], kk[2]) = CliValue(kk)
          /\ CliValue(kk) # deployer_input.content[kk]
          /\ CliValue(kk) # defaults_file.content[kk]

(***************************************************************************)
(* Claims about the find-or-create routines (checked under Spec).          *)
(***************************************************************************)
\* the calls of this run with one of the operations
CallsOf(ops) == { n \in 1..Len(calls) : calls[n][2] \in ops }

\* the ids the service gave to what this run created with an operation
CreatedBy(op) == { calls[n][4] : n \in CallsOf({op}) }

\* the flavors that were there before this run created any
ExistingFlavors == SelectSeq(cloud.flavors, LAMBDA f : f.id \notin CreatedBy("flavors.create"))

\* a resource of the first run's cloud has the name
NamedIn(resources, name) == \E n \in 1..Len(resources) : resources[n].name = name

\* a create call of the second run for what was there after the first
DuplicateCreate(call) ==
    \/ call[2] = "tenants.create" /\ call[3] \in first.cloud.keystone.tenants
    \/ call[2] = "users.create" /\ UserPassword(first.cloud.keystone, call[3]) # Absent
    \/ call[2] = "flavors.create" /\ NamedIn(first.cloud.flavors, call[3])
    \/ call[2] = "images.create" /\ NamedIn(first.cloud.images, call[3])
    \/ call[2] = "create_network" /\ NamedIn(first.cloud.networks, call[3])
    \/ call[2] = "create_subnet"
       /\ \E n \in 1..Len(first.cloud.subnets) : first.cloud.subnets[n].network_id = call[3]

\* the tool ran twice to the end with --create, no other process working on
\* the cloud
RanTwice == run = 2 /\ pc = "done" /\ first.pc = "done" /\ args.create /\ ~cloud.shared

C8_FlavorFoundByName ==
    ( /\ pc = "flavor_set"
      /\ ConfiguredId(Obj, FlavorKey(local.which)) = ""
      /\ NamedIn(ExistingFlavors, FlavorName(local.which)) ) =>
        /\ local.id = FirstWithName(ExistingFlavors, FlavorName(local.which))
        /\ \A n \in CallsOf({"flavors.create"}) : calls[n][3] # FlavorName(local.which)

\* find_or_create_flavor returned with creation allowed, no id configured and
\* two flavors of the name in the cloud
C8_Witness ==
    /\ pc = "flavor_set"
    /\ args.create
    /\ ~has_option(Obj, "compute", FlavorKey(local.which))
    /\ Len(ExistingFlavors) = 2
    /\ \A n \in 1..2 : ExistingFlavors[n].name = FlavorName(local.which)
    /\ local.id = ExistingFlavors[1].id

\* the last remote call of the run was the lookup of a flavor by name
LookedUpFlavor(which) ==
    /\ calls # << >>
    /\ calls[Len(calls)][2] = "flavors.findall_name"
    /\ calls[Len(calls)][3] = FlavorName(which)
    /\ local.which = which

\* C9: when the lookups by id and by name find no flavor and creation is not
\* allowed, find_or_create_flavor raises an error that names the flavor, no
\* create call is issued, and the flavor's option keeps what the layers gave
\* it.
C9_FlavorMissing ==
    \A which \in 1..2 :
        ( /\ LookedUpFlavor(which)
          /\ ~NamedIn(cloud.flavors, FlavorName(which))
          /\ ~args.create ) =>
            /\ pc = "failed"
            /\ error = FlavorNotFound(FlavorName(which))
            /\ CallsOf({"flavors.create"}) = {}
            /\ conf.values[<<"compute", FlavorKey(which)>>] =
                  IF DefaultsGives(<<"compute", FlavorKey(which)>>)
                     \/ DeployerGives(<<"compute", FlavorKey(which)>>)
                     \/ CliGives(<<"compute", FlavorKey(which)>>)
                  THEN LayeredValue(<<"compute", FlavorKey(which)>>)
                  ELSE Absent

\* the run failed on m1.nano after a lookup by a configured id and one by name
C9_Witness ==
    /\ LookedUpFlavor(1)
    /\ ~args.create
    /\ pc = "failed"
    /\ error = FlavorNotFound("m1.nano")
    /\ Len(calls) >= 2
    /\ calls[Len(calls) - 1][2] = "flavors.findall_id"
    /\ calls[Len(calls) - 1][4] = "none"

(***************************************************************************)
(* Claims about the network reconciliation (checked under Spec).           *)
(***************************************************************************)
\* the networks that were there before this run created any
ExistingNetworks ==
    SelectSeq(cloud.networks, LAMBDA nw : nw.id \notin CreatedBy("create_network"))

\* the networks of the listing that are external and have subnets
PublicNetworks == { n \in 1..Len(ExistingNetworks) : IsPublic(ExistingNetworks[n]) }

\* the run listed neutron's networks
ListedNetworks == CallsOf({"list_networks"}) # {}

\* C11: with the network service there and no network id supplied, when
\* exactly one network of the listing is external and has subnets, its id is
\* the public_network_id that is selected, and no network or subnet create
\* call is issued, even when creation is allowed.
C11_OnePublicNetworkSelected ==
    ( /\ ListedNetworks
      /\ args.network_id = ""
      /\ Cardinality(PublicNetworks) = 1 ) =>
        /\ CallsOf({ "create_network", "create_subnet" }) = {}
        /\ pc = "network_set" =>
              local.id = ExistingNetworks[CHOOSE n \in PublicNetworks : TRUE].id
        /\ pc # "network_set" =>
              resolved.public_network_id =
                  ExistingNetworks[CHOOSE n \in PublicNetworks : TRUE].id

\* creation is allowed, the listing has two networks, the second one being the
\* only one that is external with subnets, and its id was selected
C11_Witness ==
    /\ ListedNetworks
    /\ args.network_id = ""
    /\ args.create
    /\ pc = "fixed_network_set"
    /\ Len(ExistingNetworks) = 2
    /\ PublicNetworks = {2}
    /\ ExistingNetworks[1].external
    /\ resolved.public_network_id = ExistingNetworks[2].id

(***************************************************************************)
(* Claims about the store (checked under SpecStore).                       *)
(***************************************************************************)
Value(kk) == conf.values[kk]

\* C1: once a key has been written with priority=True on a store, a later set
\* with priority=False on that key leaves its value as it is, and a later set
\* with priority=True replaces the value by the one passed.
C1_PinnedChangesOnlyByPriority ==
    (last.op = "set" /\ last.was_prio) =>
        IF last.priority
        THEN Value(last.key) = last.value
        ELSE Value(last.key) = last.old

\* a non-priority set of another value was made on a key written with priority
C1_Witness ==
    /\ last.op = "set"
    /\ ~last.priority
    /\ last.was_prio
    /\ last.old # last.value

\* C2: set returns False exactly when priority=False and the key is pinned, and
\* then no stored value and no pin changes; in every other case it returns True,
\* the key holds the value passed and the key is pinned only when priority=True.
C2_SetOutcome ==
    [][\A kk \in ApiKeys, value \in ApiValues, priority \in BOOLEAN :
         StoreSet(kk, value, priority) =>
             IF ~priority /\ kk \in priority_sectionkeys
             THEN /\ last'.ret = "False"
                  /\ conf'.values = conf.values
                  /\ priority_sectionkeys' = priority_sectionkeys
             ELSE /\ last'.ret = "True"
                  /\ conf'.values[kk] = value
                  /\ priority_sectionkeys' =
                        IF priority THEN priority_sectionkeys \cup {kk}
                        ELSE priority_sectionkeys]_vars

\* C3 as stated: after any history, read(source) followed by a non-priority set
\* on a key that does not occur in source returns True and stores the value.
C3_SetAfterReadApplies ==
    (last.op = "set" /\ last.fresh /\ ~last.priority)
    => (last.ret = "True" /\ Value(last.key) = last.value)

\* C3 amended: read(source) followed by a non-priority set on a key that does
\* not occur in source and is not pinned returns True and stores the value; on
\* a pinned key the set does not apply and the value stays.
C3_SetAfterReadAppliesUnlessPinned ==
    (last.op = "set" /\ last.fresh /\ ~last.priority) =>
        IF ~last.was_pinned
        THEN last.ret = "True" /\ Value(last.key) = last.value
        ELSE last.ret # "True" /\ Value(last.key) = last.old

\* a non-priority set right after a read that imported something else, on a key
\* that is not pinned and held another value, has been applied
C3_Witness ==
    /\ last.op = "set"
    /\ last.fresh
    /\ last.keys # {}
    /\ ~last.priority
    /\ ~last.was_pinned
    /\ last.old \notin {Absent, last.value}
    /\ last.ret = "True"

\* C4: read(source) never changes the value of a key that is pinned and never
\* adds a key to the pinned set.
C4_ReadKeepsPinnedValues ==
    [][\A source \in ApiSources :
         StoreRead(source) =>
             /\ priority_sectionkeys' = priority_sectionkeys
             /\ \A kk \in priority_sectionkeys :
                   conf'.values[kk] = conf.values[kk]]_vars

(***************************************************************************)
(* The parsing model: parse_overrides applied to a list of arguments.      *)
(***************************************************************************)
OverrideLists == UNION { [1..n -> Words] : n \in 0..MaxOverrides }

ParseInit ==
    /\ conf = NewConf
    /\ priority_sectionkeys = {}
    /\ prio_written = {}
    /\ last = NoCall
    /\ overrides \in OverrideLists
    /\ parsed = Unparsed
    /\ NoRun

ParseOverrides ==
    /\ parsed = Unparsed
    /\ parsed' = parse_overrides(overrides)
    /\ UNCHANGED << conf, priority_sectionkeys, prio_written, last, overrides,
                    args, defaults_file, deployer_input, runvars >>

ParseNext == ParseOverrides

SpecParse == ParseInit /\ [][ParseNext]_vars

(***************************************************************************)
(* Claims about parse_overrides (checked under SpecParse).                 *)
(***************************************************************************)
DotCount(w) == Cardinality({ n \in 1..Len(w) : w[n] = Dot })

DotAt(w) == CHOOSE n \in 1..Len(w) : w[n] = Dot

\* the text before and after the dot of a string with one dot
BeforeDot(w) == Str(SubSeq(w, 1, DotAt(w) - 1))
AfterDot(w) == Str(SubSeq(w, DotAt(w) + 1, Len(w)))

\* the key elements: the 1st, 3rd, ... argument
KeyPositions == { n \in 1..Len(overrides) : n % 2 = 1 }

\* C10: an even-length list whose key elements each hold exactly one dot gives
\* the triples (section, key, value) in input order, one per pair; an
\* odd-length list fails; a list with a key element of no dot or of several
\* dots fails and gives no triple.
C10_ParseOverrides ==
    parsed # Unparsed =>
        /\ (Len(overrides) % 2 = 0 /\ \A n \in KeyPositions : DotCount(overrides[n]) = 1)
              => /\ parsed.status = "ok"
                 /\ Len(parsed.triples) = Len(overrides) \div 2
                 /\ \A j \in 1..Len(parsed.triples) :
                       parsed.triples[j] = << BeforeDot(overrides[2 * j - 1]),
                                              AfterDot(overrides[2 * j - 1]),
                                              overrides[2 * j] >>
        /\ Len(overrides) % 2 = 1
              => parsed.status \in {"odd", "missing_dot"} /\ parsed.triples = << >>
        /\ (\E n \in KeyPositions : DotCount(overrides[n]) # 1)
              => parsed.status \in {"odd", "missing_dot"} /\ parsed.triples = << >>

\* two different well-formed pairs have been parsed
C10_Witness ==
    /\ parsed.status = "ok"
    /\ Len(parsed.triples) = 2
    /\ parsed.triples[1] = << "identity", "uri", <<"a">> >>
    /\ parsed.triples[2] = << "compute", "flavor_ref", <<"a", Dot, "b", Dot, "c">> >>

(***************************************************************************)
(* Claims about usage errors (checked under Spec).                         *)
(***************************************************************************)
\* the command line is one that parse_arguments refuses
UsageErrorGiven ==
    \/ args.create /\ args.non_admin
    \/ Len(overrides) % 2 = 1
    \/ \E n \in KeyPositions : DotCount(overrides[n]) # 1

\* C12: with --create together with --non-admin, an odd number of override
\* elements, or an override key without exactly one dot, the run ends in
\* parse_arguments: no remote call was issued, no connection made, nothing
\* written to the store, and no output file written.
C12_UsageErrorAbortsEarly ==
    ( UsageErrorGiven /\ pc # "parse_arguments" ) =>
        /\ pc = "failed"
        /\ error \in { "create with non-admin", "odd", "missing_dot" }
        /\ calls = << >>
        /\ clients = NoClients
        /\ conf = NewConf
        /\ priority_sectionkeys = {}
        /\ outfile = NoFile

\* a run with a defaults file ended on a second key with two dots, the first
\* pair being well formed
C12_Witness ==
    /\ pc = "failed"
    /\ error = "missing_dot"
    /\ defaults_file.exists
    /\ Len(overrides) = 4
    /\ DotCount(overrides[1]) = 1
    /\ DotCount(overrides[3]) = 2
    /\ calls = << >>

(***************************************************************************)
(* Claims about the output file (checked under Spec).                      *)
(***************************************************************************)
\* the output file as it was when this invocation started
OutfileBefore == IF run = 2 THEN first.outfile ELSE NoFile

\* the options that the phases before the write always set
LatePhaseKeys ==
    { <<"identity", "uri_v3">>, <<"compute", "flavor_ref">>,
      <<"compute", "flavor_ref_alt">>, <<"compute", "image_ref">>,
      <<"compute", "image_ref_alt">>, <<"compute", "fixed_network_name">>,
      <<"service_available", "glance">>, <<"identity-feature-enabled", "api_v3">>,
      <<"cli", "has_manage">>, <<"service_available", "horizon">>,
      <<"dashboard", "login_url">> }

\* C13: the output file is written only at the end of a run whose phases all
\* completed: until then, and in a run that failed in any phase, the file is
\* as it was before the run; the file a run writes is the whole store after
\* the last phase.
C13_OutputAllOrNothing ==
    /\ pc # "done" => outfile = OutfileBefore
    /\ pc = "done" =>
          /\ error = ""
          /\ outfile = File(Written(Obj))
          /\ LatePhaseKeys \subseteq DOMAIN outfile.content
          /\ resolved.fixed_network_name # ""

\* a second run failed on a remote error after the images were set, and the
\* file of the first run is still there
C13_Witness ==
    /\ run = 2
    /\ pc = "failed"
    /\ error = "ConnectionError"
    /\ resolved.image_ref # ""
    /\ first.pc = "done"
    /\ outfile.exists
    /\ outfile = first.outfile

(***************************************************************************)
(* Claims about races on creation (checked under Spec).                    *)
(***************************************************************************)
CreateOps == { "tenants.create", "users.create", "flavors.create", "images.create",
               "create_network", "create_subnet" }

\* the last remote call of the run was a create that the service answered
\* with Conflict
CreateConflicted ==
    /\ calls # << >>
    /\ calls[Len(calls)][2] \in CreateOps
    /\ calls[Len(calls)][4] = "Conflict"

\* C14: a create call that is answered with Conflict, another process having
\* created the resource of that name since the lookup, does not end the run:
\* for each kind of resource the routine goes on and resolves the resource by
\* a lookup.
C14_ConflictRecovered ==
    CreateConflicted => ~(pc = "failed" /\ error = "Conflict")

(***************************************************************************)
(* Claims about the users of the tests (checked under Spec).               *)
(***************************************************************************)
\* create_user_with_tenant has just returned from its call number which: the
\* last remote call is its users.create that created the user, or its
\* users.update_password
UserCallReturned(which) ==
    /\ calls # << >>
    /\ \/ calls[Len(calls)][2] = "users.create" /\ calls[Len(calls)][4] = "created"
       \/ calls[Len(calls)][2] = "users.update_password"
    /\ calls[Len(calls)][3] = UserArgs(which).username
    /\ pc # "failed"

\* C15: when create_user_with_tenant returns, the tenant exists, the user
\* exists and has the configured password, whatever keystone held before; and
\* every users.create call comes after a tenants.create call for the user's
\* tenant.
C15_UserWithTenant ==
    \A which \in 1..2 :
        /\ UserCallReturned(which) =>
              /\ UserArgs(which).tenant_name \in cloud.keystone.tenants
              /\ UserPassword(cloud.keystone, UserArgs(which).username) =
                    UserArgs(which).password
        /\ \A n \in CallsOf({"users.create"}) :
              calls[n][3] = UserArgs(which).username =>
                  \E m \in 1..(n - 1) :
                      /\ calls[m][2] = "tenants.create"
                      /\ calls[m][3] = UserArgs(which).tenant_name

\* the first call returned after it created the tenant, found the user in
\* place (Conflict) and updated the password
C15_Witness ==
    /\ UserCallReturned(1)
    /\ Len(calls) >= 5
    /\ calls[Len(calls)][2] = "users.update_password"
    /\ calls[Len(calls) - 2][2] = "users.create"
    /\ calls[Len(calls) - 2][4] = "Conflict"
    /\ calls[Len(calls) - 4][2] = "tenants.create"
    /\ calls[Len(calls) - 4][4] = "created"
    /\ UserPassword(cloud.keystone, "demo") = "secret"

\* the role of a roles.find call has to exist: the admin role of the first
\* give_role_to_user, not the heat_stack_owner role of the second
RequiredRole(role_name) == role_name = "admin"

\* C16: give_role_to_user with the role absent: if the role is not required no
\* grant call follows and the run goes on, if it is required the run ends with
\* NotFound; a grant answered with Conflict is a success that changes nothing.
C16_GiveRoleToUser ==
    /\ \A n \in CallsOf({"roles.find"}) :
          calls[n][4] = "NotFound" =>
              IF RequiredRole(calls[n][3])
              THEN n = Len(calls) /\ pc = "failed" /\ error = "NotFound"
              ELSE /\ n < Len(calls) => calls[n + 1][2] # "tenants.add_user"
                   /\ n = Len(calls) =>
                         /\ pc \in {"tenant_create", "failed"}
                         /\ pc = "failed" => error = "ConnectionError"
    /\ \A n \in CallsOf({"tenants.add_user"}) :
          calls[n][4] = "Conflict" =>
              /\ \E grant \in cloud.keystone.grants : grant[3] = calls[n][3]
              /\ n = Len(calls) =>
                    /\ pc \in {"role_user_find", "tenant_create", "failed"}
                    /\ pc = "failed" => error = "ConnectionError"

\* a run that found the admin role already granted and no heat_stack_owner
\* role, and went on to its end
C16_Witness ==
    /\ pc = "done"
    /\ \E n \in CallsOf({"roles.find"}) :
          calls[n][3] = "heat_stack_owner" /\ calls[n][4] = "NotFound"
    /\ \E n \in CallsOf({"tenants.add_user"}) :
          calls[n][3] = "admin" /\ calls[n][4] = "Conflict"

\* a run that the missing admin role ended
C16_WitnessRequired ==
    /\ pc = "failed" /\ error = "NotFound"
    /\ calls[Len(calls)] = Call("identity", "roles.find", "admin", "NotFound")

(***************************************************************************)
(* Claims about the find-or-create routines as a family (checked under     *)
(* Spec).                                                                  *)
(***************************************************************************)
\* the remote calls that change the cloud, and the read-only lookup of the
\* same routine that tells whether the resource is there
MutatingOps ==
    {"tenants.create", "users.create", "users.update_password", "tenants.add_user",
     "flavors.create", "images.create", "create_network", "create_subnet"}

LookupOf(op) ==
    CASE op = "tenants.create" -> {"tenants.find"}
      [] op = "users.create" -> {"users.find"}
      [] op = "users.update_password" -> {"users.find"}
      [] op = "tenants.add_user" -> {"roles.find"}
      [] op = "flavors.create" -> {"flavors.findall_id", "flavors.findall_name"}
      [] op = "images.create" -> {"images.get", "images.list"}
      [] OTHER -> {"list_networks"}

\* the call was aimed at a resource that was there already
TargetExisted(call) ==
    call[4] = "Conflict" \/ call[2] = "users.update_password"

\* C17: every mutating call is issued with creation permitted, after a
\* read-only lookup of the same routine, and never at a resource that exists.
C17_LookupBeforeMutation ==
    \A n \in CallsOf(MutatingOps) :
        /\ args.create
        /\ \E m \in 1..(n - 1) : calls[m][2] \in LookupOf(calls[n][2])
        /\ ~TargetExisted(calls[n])

(***************************************************************************)
(* Claims about the order of main() (checked under Spec).                  *)
(***************************************************************************)
UsersSteps ==
    { "tenant_create", "tenant_find", "user_create", "user_find", "user_update_password",
      "role_user_find", "role_tenant_find", "role_find", "role_grant" }

FlavorsSteps == { "flavor_find_id", "flavor_find_name", "flavor_create", "flavor_set" }

ImagesSteps ==
    { "image_find_id", "image_list", "image_download", "image_upload", "images_set" }

NetworkSteps ==
    { "network_list", "network_create", "subnet_create", "network_set",
      "nova_networks_list", "fixed_network_set" }

\* the phase a position of main() belongs to, in the order of the phases:
\* 1 LoadDefaults .. 15 Serialize; 0 before the first, 16 after the last
PhaseOf(label) ==
    CASE label = "parse_arguments" -> 0
      [] label = "read_defaults" -> 1
      [] label = "deployer_input" -> 2
      [] label = "overrides" -> 3
      [] label = "uri_v3" -> 4
      [] label = "non_admin" -> 5
      [] label \in { "client_manager", "identity_connect", "discover" } -> 6
      [] label \in UsersSteps -> 7
      [] label \in FlavorsSteps -> 8
      [] label \in ImagesSteps -> 9
      [] label \in NetworkSteps -> 10
      [] label = "configure_discovered_services" -> 11
      [] label = "configure_boto" -> 12
      [] label = "configure_cli" -> 13
      [] label = "configure_horizon" -> 14
      [] label = "write" -> 15
      [] OTHER -> 16

\* the remote calls of the reconciliation phases
ReconcileOps ==
    MutatingOps \cup
    { "tenants.find", "users.find", "roles.find", "flavors.findall_id",
      "flavors.findall_name", "images.get", "images.list", "urlopen", "list_networks",
      "networks.list" }

\* a step of one run: the phase stays or a later one is entered, unless the
\* run ends in failure; the admin credentials are blanked only in a non-admin
\* run
PhaseStep ==
    run' = run =>
        /\ pc' # "failed" => PhaseOf(pc') >= PhaseOf(pc)
        /\ PhaseOf(pc') > PhaseOf(pc) /\ PhaseOf(pc') # 16 =>
              \/ PhaseOf(pc') = PhaseOf(pc) + 1
              \/ PhaseOf(pc) = 6 /\ PhaseOf(pc') = 8 /\ ~args.create
        /\ pc = "non_admin" /\ conf' # conf => args.non_admin

\* in every state: discovery was called once before every reconciliation call
\* and before the reconciliation phases, the users are reconciled only with
\* --create, and never in a non-admin run
PhaseState ==
    /\ Cardinality(CallsOf({"discover"})) <= 1
    /\ \A n \in CallsOf(ReconcileOps) : \E m \in CallsOf({"discover"}) : m < n
    /\ PhaseOf(pc) \in 7..16 /\ pc # "failed" => Cardinality(CallsOf({"discover"})) = 1
    /\ pc \in UsersSteps => args.create /\ ~args.non_admin
    /\ CallsOf({"tenants.create", "users.create"}) # {} => args.create /\ ~args.non_admin

\* C18: main() goes through its phases in the one order, entering none twice;
\* discovery is called exactly once, before any reconciliation;
\* StripAdminCreds acts only in a non-admin run and ReconcileUsers only with
\* --create, never both in one run.
C18_SequentialPhases == [][PhaseStep]_vars /\ []PhaseState

\* a non-admin run that reached its end without the users phase
C18_Witness ==
    /\ pc = "done"
    /\ args.non_admin
    /\ get(Obj, "identity", "admin_username") = ""
    /\ Cardinality(CallsOf({"discover"})) = 1
    /\ CallsOf({"tenants.create"}) = {}

\* a run with --create that reached its end through the users phase
C18_WitnessCreate ==
    /\ pc = "done"
    /\ args.create
    /\ CallsOf({"tenants.create"}) # {}
    /\ \A n \in CallsOf({"tenants.create"}) : \E m \in CallsOf({"discover"}) : m < n

(***************************************************************************)
(* Claims about the network phase (checked under Spec).                    *)
(***************************************************************************)
\* discovery is over and found no network service
NoNetworkService == CallsOf({"discover"}) # {} /\ "network" \notin services

PublicNetworkKey == << "network", "public_network_id" >>
FixedNetworkKey == << "compute", "fixed_network_name" >>

\* C19: without the network service the network phase only lists the compute
\* networks: the label of the first becomes compute.fixed_network_name, no
\* network or subnet is created whatever --create and --network-id say,
\* network.public_network_id is not written, and an empty listing ends the
\* run.
C19_NovaNetworkOnly ==
    NoNetworkService =>
        /\ CallsOf({"list_networks", "create_network", "create_subnet"}) = {}
        /\ pc \notin {"network_list", "network_create", "subnet_create", "network_set"}
        /\ resolved.public_network_id = ""
        /\ conf.values[PublicNetworkKey] =
              IF CliGives(PublicNetworkKey) \/ DeployerGives(PublicNetworkKey)
                 \/ DefaultsGives(PublicNetworkKey)
              THEN LayeredValue(PublicNetworkKey) ELSE Absent
        /\ pc = "fixed_network_set" /\ cloud.nova_networks # << >> =>
              local.label = cloud.nova_networks[1]
        /\ PhaseOf(pc) \in 11..16 /\ pc # "failed" =>
              /\ cloud.nova_networks # << >>
              /\ resolved.fixed_network_name = cloud.nova_networks[1]
              /\ FixedNetworkKey \notin priority_sectionkeys =>
                    conf.values[FixedNetworkKey] = cloud.nova_networks[1]
        /\ cloud.nova_networks = << >> /\ CallsOf({"networks.list"}) # {} =>
              \/ pc = "fixed_network_set"
              \/ pc = "failed" /\ error = "fixed_network_name could not be discovered"

\* a run with --create and --network-id on a cloud with two compute networks
\* and no network service, at its end
C19_Witness ==
    /\ NoNetworkService
    /\ pc = "done"
    /\ args.create /\ args.network_id # ""
    /\ Len(cloud.nova_networks) = 2
    /\ conf.values[FixedNetworkKey] = cloud.nova_networks[1]
    /\ conf.values[PublicNetworkKey] = Absent

\* a run that the empty listing ended
C19_WitnessEmpty ==
    /\ NoNetworkService
    /\ cloud.nova_networks = << >>
    /\ pc = "failed" /\ error = "fixed_network_name could not be discovered"
    /\ calls[Len(calls)][2] = "networks.list"

\* the network phase of a cloud with the network service has listed the
\* networks for the id that was supplied
SuppliedIdLooked ==
    /\ "network" \in services
    /\ args.network_id # ""
    /\ CallsOf({"list_networks"}) # {}

\* the name of the network with the supplied id, Absent if there is none
SuppliedName ==
    IF \E n \in 1..Len(cloud.networks) : cloud.networks[n].id = args.network_id
    THEN cloud.networks[CHOOSE n \in 1..Len(cloud.networks) :
                            cloud.networks[n].id = args.network_id].name
    ELSE Absent

NoFixedNetwork == pc = "failed" /\ error = "fixed_network_name could not be discovered"

\* what holds with a supplied id whatever the name of the network: the id is
\* selected if it is there, the run ends if it is not, nothing is created
SuppliedIdSelected ==
    /\ CallsOf({"create_network", "create_subnet"}) = {}
    /\ pc \notin {"network_create", "subnet_create"}
    /\ SuppliedName = Absent => pc = "failed" /\ error = "ValueError"
    /\ SuppliedName # Absent =>
          /\ ~(pc = "failed" /\ error \in {"ValueError", "RuntimeError"})
          /\ pc = "network_set" => local.id = args.network_id /\ local.label = SuppliedName
          /\ pc # "network_set" =>
                /\ resolved.public_network_id = args.network_id
                /\ PublicNetworkKey \notin priority_sectionkeys =>
                      conf.values[PublicNetworkKey] = args.network_id

\* the name of the network has become the fixed network label
SuppliedNameSelected ==
    pc \notin {"network_set", "fixed_network_set"} =>
        /\ resolved.fixed_network_name = SuppliedName
        /\ FixedNetworkKey \notin priority_sectionkeys =>
              conf.values[FixedNetworkKey] = SuppliedName

\* C20 as stated: with a supplied id on a cloud with the network service, a
\* network of that id is selected and its name becomes the fixed network
\* label, a missing one ends the run, and nothing is created in either case.
C20_SuppliedNetworkId ==
    SuppliedIdLooked =>
        /\ SuppliedIdSelected
        /\ SuppliedName # Absent => ~NoFixedNetwork /\ SuppliedNameSelected

\* C20, amended: the name becomes the fixed network label when the network has
\* a name; a network of the supplied id without a name leaves the id selected
\* and ends the run for want of a fixed network.
C20_SuppliedNetworkIdNamed ==
    SuppliedIdLooked =>
        /\ SuppliedIdSelected
        /\ SuppliedName \notin {Absent, ""} => ~NoFixedNetwork /\ SuppliedNameSelected
        /\ SuppliedName = "" =>
              \/ pc \in {"network_set", "fixed_network_set"}
              \/ NoFixedNetwork /\ resolved.fixed_network_name = ""

\* a run with --create and the id of a named network, not the first of the
\* listing that is public, at its end
C20_Witness ==
    /\ SuppliedIdLooked
    /\ pc = "done"
    /\ args.create
    /\ SuppliedName \notin {Absent, ""}
    /\ conf.values[PublicNetworkKey] = args.network_id
    /\ conf.values[FixedNetworkKey] = SuppliedName
    /\ ~IsPublic(cloud.networks[1])

\* a run that the unnamed network of the supplied id ended
C20_WitnessUnnamed ==
    /\ SuppliedIdLooked
    /\ SuppliedName = ""
    /\ NoFixedNetwork
    /\ resolved.public_network_id = args.network_id

\* a run that the missing network ended, with --create
C20_WitnessMissing ==
    /\ SuppliedIdLooked
    /\ SuppliedName = Absent
    /\ args.create
    /\ pc = "failed" /\ error = "ValueError"

\* the network phase of a cloud with the network service was given no id and
\* found no network that is external and has subnets
NoPublicListed ==
    /\ "network" \in services
    /\ args.network_id = ""
    /\ \E n \in CallsOf({"list_networks"}) : calls[n][4] = "none"

\* the network the run created is there with a subnet, and is the one selected
CreatedNetworkSelected ==
    \E n \in CallsOf({"create_network"}) :
        /\ \E k \in 1..Len(cloud.networks) :
              cloud.networks[k].id = calls[n][4] /\ IsPublic(cloud.networks[k])
        /\ pc = "network_set" => local.id = calls[n][4]
        /\ pc # "network_set" => resolved.public_network_id = calls[n][4]

C21_WitnessNoCreate ==
    /\ NoPublicListed
    /\ ~args.create
    /\ Len(cloud.networks) = 2
    /\ pc = "failed" /\ error = "RuntimeError"

(***************************************************************************)
(* Claims about the ClientManager (checked under Spec).                    *)
(***************************************************************************)
ClientServices == { "identity", "compute", "image", "network" }

\* the connections of the run to a service
ConnectsTo(service) == { n \in CallsOf({"connect"}) : calls[n][1] = service }

\* no call to a service before the connection to it, and the connection is
\* made for the operation that follows it
ConnectOnFirstUse ==
    /\ \A n \in 1..Len(calls) :
          calls[n][2] # "connect" /\ calls[n][1] \in ClientServices =>
              \E m \in ConnectsTo(calls[n][1]) : m < n
    /\ \A n \in CallsOf({"connect"}) :
          n < Len(calls) /\ calls[n][4] = "ok" => calls[n + 1][1] = calls[n][1]

\* C22: the connections are made on first use and kept for the rest of the
\* run: none before the first operation of its service, and at most one to each
\* of identity, compute, image and network in a run, the two images included.
C22_ConnectOnceOnFirstUse ==
    /\ ConnectOnFirstUse
    /\ \A service \in ClientServices : Cardinality(ConnectsTo(service)) <= 1

(***************************************************************************)
(* Claims about a run after an interrupted run (checked under Spec).       *)
(***************************************************************************)
\* the second run with --create, after a first run that a failing connection
\* ended, no other process working on the cloud
RanAfterInterruption ==
    /\ run = 2
    /\ args.create
    /\ first.pc = "failed" /\ first.error = "ConnectionError"
    /\ ~cloud.shared

\* the identifier that was resolved for the public network is that of a
\* network with a subnet
ResolvedNetworkComplete ==
    resolved.public_network_id # "" =>
        \E n \in 1..Len(cloud.networks) :
            /\ cloud.networks[n].id = resolved.public_network_id
            /\ HasSubnets(cloud.networks[n])

\* C23: after a run with --create that was interrupted between two remote
\* calls, the next run with --create does not fail on what the first left, and
\* creates no second copy of a resource the first created; no resolved
\* identifier is that of a partly created resource.
C23_RerunAfterInterruption ==
    /\ args.create /\ args.network_id = "" => ResolvedNetworkComplete
    /\ RanAfterInterruption =>
          /\ pc = "failed" => error = "ConnectionError"
          /\ \A n \in 1..Len(calls) :
                DuplicateCreate(calls[n]) => calls[n][4] = "Conflict"

(***************************************************************************)
(* Claims about configure_discovered_services (checked under Spec).        *)
(***************************************************************************)
\* what the mapping says of a service of SERVICE_NAMES
Present(service) ==
    service \in services \/ (service = "telemetry" /\ "metering" \in services)

\* service_available.<codename> is str(the service is in the mapping), for
\* every option the user did not pin
AvailabilityWritten ==
    \A service \in DOMAIN SERVICE_NAMES :
        LET kk == << "service_available", SERVICE_NAMES[service] >>
        IN  kk \notin priority_sectionkeys => conf.values[kk] = str(Present(service))

\* C24: whatever services the mapping lacks, configure_discovered_services
\* completes, and service_available.<codename> is 'True' exactly for the
\* services of the mapping (telemetry also for metering), 'False' for the
\* others.
C24_AbsentServiceIsNotPresent ==
    CallsOf({"discover"}) # {} =>
        /\ ~(pc = "failed" /\ error = "KeyError")
        /\ PhaseOf(pc) \in 12..16 /\ pc # "failed" => AvailabilityWritten

(***************************************************************************)
(* Claims about the results of the flavor and image routines (checked      *)
(* under Spec).                                                            *)
(***************************************************************************)
RefKeys == { "flavor_ref", "flavor_ref_alt", "image_ref", "image_ref_alt" }

\* the name a routine looks up for a key, and the resources it looks among
RefName(key) ==
    CASE key = "flavor_ref" -> "m1.nano"
      [] key = "flavor_ref_alt" -> "m1.micro"
      [] key = "image_ref" -> ImageName
      [] key = "image_ref_alt" -> AltImageName

RefResources(key) ==
    IF key \in { "flavor_ref", "flavor_ref_alt" } THEN cloud.flavors ELSE cloud.images

\* the id the input layers configured for a key: what the routine is given
SuppliedId(key) ==
    LET kk == << "compute", key >>
    IN  IF CliGives(kk) \/ DeployerGives(kk) \/ DefaultsGives(kk)
        THEN LayeredValue(kk) ELSE ""

HasId(resources, id) == \E n \in 1..Len(resources) : resources[n].id = id

\* id is that of the first resource of the list that has the name
IsFirstNamed(resources, name, id) ==
    \E n \in 1..Len(resources) :
        /\ resources[n].id = id
        /\ resources[n].name = name
        /\ \A m \in 1..(n - 1) : resources[m].name # name

\* the routine for the key has returned a resource that it found
FoundFor(key) ==
    /\ resolved[key] # ""
    /\ resolved[key] \notin CreatedBy("flavors.create") \cup CreatedBy("images.create")

\* a lookup by id that found nothing is followed by the lookup by name
NotFoundSwallowed(by_id, by_name, next) ==
    \A n \in CallsOf({by_id}) :
        calls[n][4] \in { "none", "HTTPNotFound" } =>
            IF n < Len(calls) THEN calls[n + 1][2] = by_name
            ELSE pc = next \/ (pc = "failed" /\ error = "ConnectionError")

\* C25: a flavor or image routine that is given the id of a resource returns
\* that resource, whatever carries the name; given an id that nothing has it
\* goes on to the lookup by name; and of several resources of the name the
\* first of the listing is the result.
C25_LookupOrder ==
    /\ \A key \in RefKeys :
          FoundFor(key) =>
              IF SuppliedId(key) # "" /\ HasId(RefResources(key), SuppliedId(key))
              THEN resolved[key] = SuppliedId(key)
              ELSE IsFirstNamed(RefResources(key), RefName(key), resolved[key])
    /\ NotFoundSwallowed("flavors.findall_id", "flavors.findall_name", "flavor_find_name")
    /\ NotFoundSwallowed("images.get", "images.list", "image_list")

\* a run at its end that was given the id of a flavor that is not m1.nano, on a
\* cloud with a flavor m1.nano
C25_Witness ==
    /\ pc = "done"
    /\ SuppliedId("flavor_ref") # ""
    /\ resolved.flavor_ref = SuppliedId("flavor_ref")
    /\ \E n \in 1..Len(cloud.flavors) :
          cloud.flavors[n].name = "m1.nano" /\ cloud.flavors[n].id # resolved.flavor_ref

\* a run at its end that was given the id of no image, on a cloud with two
\* images of the name
C25_WitnessFallback ==
    /\ pc = "done"
    /\ SuppliedId("image_ref") = NoSuchId
    /\ Len(cloud.images) >= 2
    /\ cloud.images[1].name = ImageName /\ cloud.images[2].name = ImageName
    /\ resolved.image_ref = cloud.images[1].id

C26_WitnessPinned ==
    /\ pc = "done"
    /\ CliGives(<< "compute", "flavor_ref" >>)
    /\ outfile.content[<< "compute", "flavor_ref" >>] = NoSuchId
    /\ ~HasId(cloud.flavors, NoSuchId)
    /\ resolved.flavor_ref # NoSuchId

(***************************************************************************)
(* Claims about runs without --create (checked under Spec).                *)
(***************************************************************************)
\* the positions of main() from which a mutating call is sent
MutatingSteps ==
    { "tenant_create", "user_create", "user_update_password", "role_grant",
      "flavor_create", "image_upload", "network_create", "subnet_create" }

\* C27: without --create no run sends a mutating call: no tenant, user,
\* flavor, image, network or subnet create, no password update, no role grant;
\* the cloud is left as it was.
C27_NoMutationWithoutCreate ==
    ~args.create =>
        /\ CallsOf(MutatingOps) = {}
        /\ pc \notin MutatingSteps
        /\ run = 2 => cloud = first.cloud

\* a run without --create that the missing image ended, and the run after it
\* at the same point: nothing was created for it
C27_Witness ==
    /\ ~args.create
    /\ run = 2
    /\ pc = "failed" /\ error = ImageNotFound(ImageName)
    /\ first.error = error
    /\ ~NamedIn(cloud.images, ImageName)
    /\ calls # << >>

(***************************************************************************)
(* Claims about several stores in one process (checked under SpecStore).   *)
(***************************************************************************)
\* C28: the pinned set of a store is its own: a non-priority set on a key
\* that was never set with priority on this instance is not rejected,
\* whatever was set with priority on another instance.
C28_PinsPerInstance ==
    last.op = "set" /\ ~last.priority /\ ~last.was_prio =>
        last.ret = "True" /\ Value(last.key) = last.value

(***************************************************************************)
(* Claims about non-admin runs (checked under Spec).                       *)
(***************************************************************************)
\* the options the non-admin branch of main() sets, and the values it sets
StrippedKeys ==
    { << "identity", "admin_username" >>, << "identity", "admin_tenant_name" >>,
      << "identity", "admin_password" >>, << "compute", "allow_tenant_isolation" >> }

StrippedValue(kk) == IF kk[1] = "identity" THEN "" ELSE "False"

\* a non-admin run is past the branch and has not failed
Stripped == args.non_admin /\ (PhaseOf(pc) \in 6..15 \/ pc = "done")

\* C29: in a non-admin run, whatever the defaults, the deployer input and the
\* overrides say, the store after StripAdminCreds and the file that is written
\* have the admin credentials empty and tenant isolation 'False'.
C29_AdminCredsStripped ==
    Stripped =>
        \A kk \in StrippedKeys :
            /\ conf.values[kk] = StrippedValue(kk)
            /\ pc = "done" => outfile.content[kk] = StrippedValue(kk)

\* C29, amended: in a non-admin run each of the four options that the
\* deployer-input file or the command line did not supply is empty, or 'False'
\* for tenant isolation, after StripAdminCreds and in the file; an option that
\* the user supplied keeps the user's value.
C29_UnpinnedAdminCredsStripped ==
    Stripped =>
        \A kk \in StrippedKeys :
            LET value == IF CliGives(kk) \/ DeployerGives(kk)
                         THEN UserValue(kk) ELSE StrippedValue(kk)
            IN  /\ conf.values[kk] = value
                /\ pc = "done" => outfile.content[kk] = value

\* a non-admin run at its end whose defaults file gave the admin credentials
C29_Witness ==
    /\ args.non_admin
    /\ pc = "done"
    /\ DefaultsGives(<< "identity", "admin_password" >>)
    /\ defaults_file.content[<< "identity", "admin_password" >>] # ""
    /\ outfile.content[<< "identity", "admin_password" >>] = ""
    /\ outfile.content[<< "compute", "allow_tenant_isolation" >>] = "False"

\* a non-admin run at its end whose user supplied tenant isolation
C29_WitnessPinned ==
    /\ args.non_admin
    /\ pc = "done"
    /\ CliGives(<< "compute", "allow_tenant_isolation" >>)
       \/ DeployerGives(<< "compute", "allow_tenant_isolation" >>)
    /\ outfile.content[<< "compute", "allow_tenant_isolation" >>] # "False"

=============================================================================
